---- MODULE Spec2Model ----
(***************************************************************************)
(* quickrib: reconstruction of BGP routing tables from a RIB dump and the  *)
(* update files that follow it.  The module models RIBTable                *)
(* (src/rib_table.py), the four observers it notifies (src/observers) and  *)
(* the replay loop of BGPDownloader.warm_update_process (src/main.py).     *)
(*                                                                         *)
(* A decoded record is the list of fields bgpdump prints on one line; the  *)
(* AS-path field is kept as the sequence of its space-separated tokens,    *)
(* each token a piece of text that int() parses or refuses.  Timestamps    *)
(* are counted in ticks of half a second, so that an instant strictly      *)
(* between ts_end + 1 s and ts_end + 2 s exists.                           *)
(***************************************************************************)
EXTENDS Integers, Sequences, FiniteSets, TLC

(***************************************************************************)
(* Bounds of the model and the configuration it runs under.                *)
(***************************************************************************)
\* ticks in the second that rib_table.py adds to ts_end
TicksPerSecond == 2
\* the window [ts_start, ts_end] handed to RIBTable, in ticks
TsStart == 2
TsEnd == 4
\* lines read from the RIB dumps and the update files of one run
MaxLines == 3
\* update timestamps of the run: the update() calls of the replay loop
MaxUpdates == 2
\* observer calls in the specification that drives the observers directly
MaxCalls == 3

\* collectors, in the order of BGPDownloader.collectors
Collectors == <<"rrc00", "rrc01">>
PeerIps == {"1.2.3.4", "5.6.7.8"}
Prefixes == {"10.0.0.0/24", "2001:db8::/32"}
\* the allowlists peer_ip_filter the run may be configured with
PeerIpFilters == {{}, {"1.2.3.4"}}

NoPath == <<>>

(***************************************************************************)
(* Path sanitizing: int(k) for k, g in groupby(as_path.split(" ")), then   *)
(* is_valid_path.                                                          *)
(***************************************************************************)
\* int(token): the value, or ValueError (ok = FALSE)
ParseInt(tok) ==
    CASE tok = "100" -> [ok |-> TRUE, val |-> 100]
      [] tok = "200" -> [ok |-> TRUE, val |-> 200]
      [] tok = "300" -> [ok |-> TRUE, val |-> 300]
      [] tok = "400" -> [ok |-> TRUE, val |-> 400]
      [] tok = "0100" -> [ok |-> TRUE, val |-> 100]
      [] tok = "-5" -> [ok |-> TRUE, val |-> -5]
      [] OTHER -> [ok |-> FALSE, val |-> 0]

\* itertools.groupby keys: runs of equal adjacent tokens (compared as text)
\* collapse to one token
RECURSIVE groupby(_)
groupby(toks) ==
    IF Len(toks) <= 1 THEN toks
    ELSE IF toks[1] = toks[2] THEN groupby(Tail(toks))
    ELSE <<toks[1]>> \o groupby(Tail(toks))

\* the list comprehension [int(k) for k, g in groupby(...)]:
\* ok = FALSE when some int(k) raises ValueError
IntPath(toks) ==
    LET ks == groupby(toks)
    IN IF \A i \in 1..Len(ks) : ParseInt(ks[i]).ok
       THEN [ok |-> TRUE, path |-> [i \in 1..Len(ks) |-> ParseInt(ks[i]).val]]
       ELSE [ok |-> FALSE, path |-> NoPath]

is_valid_path_any_first(path, peer_asn) == Len(path) > 1

is_valid_path_single_ok(path, peer_asn) == Len(path) >= 1 /\ path[1] = peer_asn

is_valid_path(path, peer_asn) == Len(path) > 1 /\ path[1] = peer_asn

\* "." in pfx and ":" in pfx
HasDot(pfx) == pfx = "10.0.0.0/24"
HasColon(pfx) == pfx = "2001:db8::/32"

\* the family the notifications of a prefix are dispatched on
Family(pfx) == IF HasDot(pfx) THEN "ipv4" ELSE IF HasColon(pfx) THEN "ipv6" ELSE "none"

(***************************************************************************)
(* Dictionaries.                                                           *)
(***************************************************************************)
EmptyMap == [k \in {} |-> 0]

Restrict(f, S) == [k \in S |-> f[k]]

\* d[k] = v
Put(f, k, v) == [x \in DOMAIN f \cup {k} |-> IF x = k THEN v ELSE f[x]]

\* d.pop(k), del d[k]
Pop(f, k) == Restrict(f, DOMAIN f \ {k})

\* defaultdict(int): d[k] += 1
Inc(f, k) == IF k \in DOMAIN f THEN [f EXCEPT ![k] = @ + 1] ELSE Put(f, k, 1)

(***************************************************************************)
(* AS graph observer: one networkx.Graph per family.  nodes is the node    *)
(* dictionary in insertion order; edges maps the undirected edge {u, v}    *)
(* to its paths_count.                                                     *)
(***************************************************************************)
EmptyGraph == [nodes |-> <<>>, edges |-> EmptyMap]

Edge(u, v) == {u, v}

SeqRange(s) == {s[i] : i \in 1..Len(s)}

add_node(nodes, n) == IF n \in SeqRange(nodes) THEN nodes ELSE Append(nodes, n)

\* the body of the loop of ASGraphObserver._remove_path for one pair
ASGraph_remove_pair_no_delete(as_graph, u, v) ==
    IF Edge(u, v) \in DOMAIN as_graph.edges
    THEN [as_graph EXCEPT !.edges[Edge(u, v)] = @ - 1]
    ELSE as_graph

ASGraph_remove_pair(as_graph, u, v) ==
    IF Edge(u, v) \in DOMAIN as_graph.edges
    THEN IF as_graph.edges[Edge(u, v)] - 1 = 0
         THEN [as_graph EXCEPT !.edges = Pop(@, Edge(u, v))]
         ELSE [as_graph EXCEPT !.edges[Edge(u, v)] = @ - 1]
    ELSE as_graph      \* KeyError: pass

\* the body of the loop of ASGraphObserver._add_path for one pair
ASGraph_add_pair(as_graph, u, v) ==
    IF Edge(u, v) \in DOMAIN as_graph.edges
    THEN [as_graph EXCEPT !.edges[Edge(u, v)] = @ + 1]
    ELSE [nodes |-> add_node(add_node(as_graph.nodes, u), v),
          edges |-> Put(as_graph.edges, Edge(u, v), 1)]

RECURSIVE ASGraph_remove_from(_, _, _)
ASGraph_remove_from(as_graph, path, l) ==
    IF l > Len(path) - 1 THEN as_graph
    ELSE ASGraph_remove_from(ASGraph_remove_pair(as_graph, path[l], path[l + 1]), path, l + 1)

RECURSIVE ASGraph_add_from(_, _, _)
ASGraph_add_from(as_graph, path, l) ==
    IF l > Len(path) - 1 THEN as_graph
    ELSE ASGraph_add_from(ASGraph_add_pair(as_graph, path[l], path[l + 1]), path, l + 1)

ASGraph_remove_path(as_graph, path) == ASGraph_remove_from(as_graph, path, 1)

ASGraph_add_path(as_graph, path) == ASGraph_add_from(as_graph, path, 1)

(***************************************************************************)
(* AS multigraph observer: one networkx.MultiGraph per family; edges maps  *)
(* <<{u, v}, key>> to the paths_count of that parallel edge.               *)
(***************************************************************************)
\* key = f"{kwargs['rc']}_{kwargs['peer_ip']}"
MultiKey(rc, peer_ip) == rc \o "_" \o peer_ip

ASMultiGraph_remove_pair_no_delete(as_graph, u, v, key) ==
    IF <<Edge(u, v), key>> \in DOMAIN as_graph.edges
    THEN [as_graph EXCEPT !.edges[<<Edge(u, v), key>>] = @ - 1]
    ELSE as_graph

ASMultiGraph_remove_pair(as_graph, u, v, key) ==
    IF <<Edge(u, v), key>> \in DOMAIN as_graph.edges
    THEN IF as_graph.edges[<<Edge(u, v), key>>] - 1 = 0
         THEN [as_graph EXCEPT !.edges = Pop(@, <<Edge(u, v), key>>)]
         ELSE [as_graph EXCEPT !.edges[<<Edge(u, v), key>>] = @ - 1]
    ELSE as_graph      \* KeyError: pass

ASMultiGraph_add_pair(as_graph, u, v, key) ==
    IF <<Edge(u, v), key>> \in DOMAIN as_graph.edges
    THEN [as_graph EXCEPT !.edges[<<Edge(u, v), key>>] = @ + 1]
    ELSE [nodes |-> add_node(add_node(as_graph.nodes, u), v),
          edges |-> Put(as_graph.edges, <<Edge(u, v), key>>, 1)]

RECURSIVE ASMultiGraph_remove_from(_, _, _, _)
ASMultiGraph_remove_from(as_graph, path, key, l) ==
    IF l > Len(path) - 1 THEN as_graph
    ELSE ASMultiGraph_remove_from(
             ASMultiGraph_remove_pair(as_graph, path[l], path[l + 1], key), path, key, l + 1)

RECURSIVE ASMultiGraph_add_from(_, _, _, _)
ASMultiGraph_add_from(as_graph, path, key, l) ==
    IF l > Len(path) - 1 THEN as_graph
    ELSE ASMultiGraph_add_from(
             ASMultiGraph_add_pair(as_graph, path[l], path[l + 1], key), path, key, l + 1)

ASMultiGraph_remove_path(as_graph, path, rc, peer_ip) ==
    ASMultiGraph_remove_from(as_graph, path, MultiKey(rc, peer_ip), 1)

ASMultiGraph_add_path(as_graph, path, rc, peer_ip) ==
    ASMultiGraph_add_from(as_graph, path, MultiKey(rc, peer_ip), 1)

(***************************************************************************)
(* BaseGraphObserver: the six notification methods shared by the graph     *)
(* and the multigraph observer.  kind selects the subclass whose           *)
(* _add_path and _remove_path are called; an observer is the record of     *)
(* its two graphs.                                                         *)
(***************************************************************************)
EmptyGraphObserver == [graph_ipv4 |-> EmptyGraph, graph_ipv6 |-> EmptyGraph]

Graph_add(kind, as_graph, path, rc, peer_ip) ==
    IF kind = "graph" THEN ASGraph_add_path(as_graph, path)
    ELSE ASMultiGraph_add_path(as_graph, path, rc, peer_ip)

Graph_remove(kind, as_graph, path, rc, peer_ip) ==
    IF kind = "graph" THEN ASGraph_remove_path(as_graph, path)
    ELSE ASMultiGraph_remove_path(as_graph, path, rc, peer_ip)

\* update_announcement_ipv4/_ipv6 on one graph: "if old_path:" is false for
\* None and for an empty list
Graph_announce_add_first(kind, as_graph, new_path, old_path, rc, peer_ip) ==
    IF old_path # NoPath
    THEN Graph_remove(kind, Graph_add(kind, as_graph, new_path, rc, peer_ip),
                      old_path, rc, peer_ip)
    ELSE Graph_add(kind, as_graph, new_path, rc, peer_ip)

Graph_announce(kind, as_graph, new_path, old_path, rc, peer_ip) ==
    IF old_path # NoPath
    THEN Graph_add(kind, Graph_remove(kind, as_graph, old_path, rc, peer_ip),
                   new_path, rc, peer_ip)
    ELSE Graph_add(kind, as_graph, new_path, rc, peer_ip)

\* a notification: method is "add_path", "update_withdrawal" or
\* "update_announcement", fam the suffix "ipv4" or "ipv6" of the method called
Graph_apply(kind, as_graph, ev) ==
    CASE ev.method = "add_path" ->
            Graph_add(kind, as_graph, ev.path, ev.rc, ev.peer_ip)
      [] ev.method = "update_withdrawal" ->
            Graph_remove(kind, as_graph, ev.path, ev.rc, ev.peer_ip)
      [] ev.method = "update_announcement" ->
            Graph_announce(kind, as_graph, ev.path, ev.old_path, ev.rc, ev.peer_ip)

BaseGraph_notify(kind, o, ev) ==
    IF ev.fam = "ipv4"
    THEN [o EXCEPT !.graph_ipv4 = Graph_apply(kind, @, ev)]
    ELSE [o EXCEPT !.graph_ipv6 = Graph_apply(kind, @, ev)]

(***************************************************************************)
(* Path observer: paths_count, a defaultdict(int) keyed by the path.       *)
(***************************************************************************)
EmptyPathObserver == [paths_count |-> EmptyMap]

Path_add_path_once(o, path) ==
    IF path \in DOMAIN o.paths_count THEN o
    ELSE [o EXCEPT !.paths_count = Put(@, path, 1)]

Path_add_path(o, path) == [o EXCEPT !.paths_count = Inc(@, path)]

Path_remove_path_keep_zero(o, path) ==
    LET c == (IF path \in DOMAIN o.paths_count THEN o.paths_count[path] ELSE 0) - 1
    IN [o EXCEPT !.paths_count = Put(@, path, c)]

Path_remove_path(o, path) ==
    LET c == (IF path \in DOMAIN o.paths_count THEN o.paths_count[path] ELSE 0) - 1
    IN IF c <= 0
       THEN [o EXCEPT !.paths_count = Pop(@, path)]
       ELSE [o EXCEPT !.paths_count = Put(@, path, c)]

Path_announce_only_replace(o, new_path, old_path) ==
    IF old_path # NoPath
    THEN Path_add_path(Path_remove_path(o, old_path), new_path)
    ELSE o

Path_announce(o, new_path, old_path) ==
    IF old_path # NoPath
    THEN Path_add_path(Path_remove_path(o, old_path), new_path)
    ELSE Path_add_path(o, new_path)

Path_notify(o, ev) ==
    CASE ev.method = "add_path" -> Path_add_path(o, ev.path)
      [] ev.method = "update_withdrawal" -> Path_remove_path(o, ev.path)
      [] ev.method = "update_announcement" -> Path_announce(o, ev.path, ev.old_path)

(***************************************************************************)
(* Update counter: six defaultdicts.                                       *)
(***************************************************************************)
EmptyUpdateCount ==
    [n_updates |-> EmptyMap,
     n_withdrawals_ipv4 |-> EmptyMap, n_withdrawals_ipv6 |-> EmptyMap,
     n_announcements_ipv4 |-> EmptyMap, n_announcements_ipv6 |-> EmptyMap,
     n_updates_per_peer |-> EmptyMap]

\* n_updates_per_peer[rc][peer_ip] += 1 on a defaultdict of defaultdict(int)
IncPerPeer(f, rc, peer_ip) ==
    Put(f, rc, Inc(IF rc \in DOMAIN f THEN f[rc] ELSE EmptyMap, peer_ip))

\* the counter whose update_withdrawal_ipv4 leaves n_updates_per_peer alone
UpdateCount_notify_no_peer(o, ev) ==
    CASE ev.method = "add_path" -> o
      [] ev.method = "update_withdrawal" /\ ev.fam = "ipv4" ->
            [o EXCEPT !.n_updates = Inc(@, ev.rc),
                      !.n_withdrawals_ipv4 = Inc(@, ev.rc)]
      [] ev.method = "update_withdrawal" /\ ev.fam = "ipv6" ->
            [o EXCEPT !.n_updates = Inc(@, ev.rc),
                      !.n_withdrawals_ipv6 = Inc(@, ev.rc),
                      !.n_updates_per_peer = IncPerPeer(@, ev.rc, ev.peer_ip)]
      [] ev.method = "update_announcement" /\ ev.fam = "ipv4" ->
            [o EXCEPT !.n_updates = Inc(@, ev.rc),
                      !.n_announcements_ipv4 = Inc(@, ev.rc),
                      !.n_updates_per_peer = IncPerPeer(@, ev.rc, ev.peer_ip)]
      [] ev.method = "update_announcement" /\ ev.fam = "ipv6" ->
            [o EXCEPT !.n_updates = Inc(@, ev.rc),
                      !.n_announcements_ipv6 = Inc(@, ev.rc),
                      !.n_updates_per_peer = IncPerPeer(@, ev.rc, ev.peer_ip)]

UpdateCount_notify(o, ev) ==
    CASE ev.method = "add_path" -> o
      [] ev.method = "update_withdrawal" /\ ev.fam = "ipv4" ->
            [o EXCEPT !.n_updates = Inc(@, ev.rc),
                      !.n_withdrawals_ipv4 = Inc(@, ev.rc),
                      !.n_updates_per_peer = IncPerPeer(@, ev.rc, ev.peer_ip)]
      [] ev.method = "update_withdrawal" /\ ev.fam = "ipv6" ->
            [o EXCEPT !.n_updates = Inc(@, ev.rc),
                      !.n_withdrawals_ipv6 = Inc(@, ev.rc),
                      !.n_updates_per_peer = IncPerPeer(@, ev.rc, ev.peer_ip)]
      [] ev.method = "update_announcement" /\ ev.fam = "ipv4" ->
            [o EXCEPT !.n_updates = Inc(@, ev.rc),
                      !.n_announcements_ipv4 = Inc(@, ev.rc),
                      !.n_updates_per_peer = IncPerPeer(@, ev.rc, ev.peer_ip)]
      [] ev.method = "update_announcement" /\ ev.fam = "ipv6" ->
            [o EXCEPT !.n_updates = Inc(@, ev.rc),
                      !.n_announcements_ipv6 = Inc(@, ev.rc),
                      !.n_updates_per_peer = IncPerPeer(@, ev.rc, ev.peer_ip)]

(***************************************************************************)
(* State.                                                                  *)
(***************************************************************************)
VARIABLES
    peer_ip_filter,          \* RIBTable.peer_ip_filter
    data,                    \* RIBTable.data: rc -> peer_ip -> pfx -> path
    stop_updating,           \* RIBTable.stop_updating: rc -> bool
    as_graph_observer,       \* the observers attached by warm_update_process,
    as_multigraph_observer,  \*   in the order of RIBTable._observers
    update_count_observer,
    path_observer,
    mode,                    \* where the driver is: "new", "build", "idle",
                             \*   "update", "done", then "end_build",
                             \*   "end_built", "compared"; "calls" when the
                             \*   observers are driven directly; "args",
                             \*   "configured" and "urls" around __init__ and
                             \*   set_urls, "raised" once an exception ended
                             \*   the run; "downloaded", "warm", "built",
                             \*   "replay", "replayed", "returned" and
                             \*   "checking" along warm_update_process;
                             \*   "dumped" after the dump of the graph
                             \*   observer; "tokens" then "sanitized",
                             \*   "graphs" then "graphs_compared", "dicts"
                             \*   then "diffed" around a function called
                             \*   alone
    todo,                    \* the collectors of rc_to_url still to process,
                             \*   the head being the file that is read
    build_result,            \* the dict build() is computing: rc -> peer_to_pfx_to_path
    rec,                     \* the line of the file read last (<<>>: none yet)
    notes,                   \* the observer calls made for that line, in order
    n_lines, n_calls,        \* lines read so far; update() calls so far
                             \*   (observer calls when driven directly)
    hist,                    \* history: per (rc, peer_ip, pfx) the last record applied
    late_seen,               \* history: a too-late line was read in the current file
    snap, trip,              \* history: observers before the last add_path,
                             \*   and how far an add/remove round trip got
    peer_asns, projects,     \* BGPDownloader.peer_asns and .projects
    date_range,              \* the start of date_range as BGPDownloader.__init__
                             \*   parses it into ts_start
    closest_rib,             \* the instant set_urls assigns to ts_start
                             \*   (<<>> before set_urls has run)
    end_data,                \* end_rib_table.data, the ground-truth RIB
    end_as_graph_observer,   \* the one observer attached to end_rib_table
    logs,                    \* the logging calls made during RIBTable.compare
                             \*   (a set: their order is left out)
    collectors, interval,    \* BGPDownloader.collectors and .interval
    parses,                  \* whether strptime accepts both halves of date_range
    ts_end,                  \* BGPDownloader.ts_end
    files,                   \* BGPDownloader.files: (datetime, RC, type) -> url,
                             \*   the rows that hold a url
    compare,                 \* BGPDownloader.compare
    raised,                  \* the exception that ended the run ("" while none has)
    effects,                 \* the I/O done so far: directories made, urls
                             \*   fetched, temporary files created and removed
    output_files,            \* BGPDownloader.output_files
    timestamps,              \* the timestamps the replay loop has still to take
    calls,                   \* the build, dump and update calls the driver made
                             \*   on rib_table, in order, each with its timestamp
    multigraph_observer,     \* ASGraphObserver.multigraph_observer
    written,                 \* what the last ASGraphObserver.dump wrote, per family
    arg, result,             \* a function applied on its own: its arguments
                             \*   and what it returned
    attached                 \* RIBTable._observers: the names of the observers,
                             \*   in the order of the attach_observer calls

observers == <<as_graph_observer, as_multigraph_observer,
               update_count_observer, path_observer>>

histvars == <<hist, late_seen, snap, trip>>

downloader == <<peer_asns, projects, date_range, closest_rib>>

ground == <<end_data, end_as_graph_observer, logs>>

driver == <<collectors, interval, parses, ts_end, files, compare, raised, effects,
            output_files, timestamps, calls>>

aside == <<multigraph_observer, written, arg, result, attached>>

vars == <<peer_ip_filter, data, stop_updating, observers, mode, todo,
          build_result, rec, notes, n_lines, n_calls, histvars, downloader, ground,
          driver, aside>>

\* RIBTable._observers after the four attach_observer calls
ObserverNames == <<"graph", "multigraph", "update_count", "path">>

Keys == SeqRange(Collectors) \X PeerIps \X Prefixes

NoHist == [valid |-> FALSE, asn |-> 0, path |-> NoPath]

NoSnap == [graph |-> EmptyGraphObserver, path |-> EmptyPathObserver]

(***************************************************************************)
(* Notifications.                                                          *)
(***************************************************************************)
Event(method, fam, rc, peer_ip, pfx, path, old_path) ==
    [method |-> method, fam |-> fam, rc |-> rc, peer_ip |-> peer_ip,
     pfx |-> pfx, path |-> path, old_path |-> old_path]

Dispatch_ipv4_only(method, rc, peer_ip, pfx, path, old_path) ==
    IF HasDot(pfx) \/ HasColon(pfx)
    THEN <<Event(method, "ipv4", rc, peer_ip, pfx, path, old_path)>>
    ELSE <<>>

\* the branch 'if "." in pfx: ... elif ":" in pfx: ...' around every notification
Dispatch(method, rc, peer_ip, pfx, path, old_path) ==
    IF HasDot(pfx) THEN <<Event(method, "ipv4", rc, peer_ip, pfx, path, old_path)>>
    ELSE IF HasColon(pfx) THEN <<Event(method, "ipv6", rc, peer_ip, pfx, path, old_path)>>
    ELSE <<>>

\* RIBTable._notify_*: the call is made on every observer, in attachment order
NotesOf(evs) ==
    IF evs = <<>> THEN <<>>
    ELSE [i \in 1..Len(ObserverNames) |-> [observer |-> ObserverNames[i], ev |-> evs[1]]]

\* the four observers after the calls of evs (at most one event per line)
Notify(evs) ==
    IF evs = <<>>
    THEN UNCHANGED observers
    ELSE /\ as_graph_observer' = BaseGraph_notify("graph", as_graph_observer, evs[1])
         /\ as_multigraph_observer' =
                BaseGraph_notify("multigraph", as_multigraph_observer, evs[1])
         /\ update_count_observer' = UpdateCount_notify(update_count_observer, evs[1])
         /\ path_observer' = Path_notify(path_observer, evs[1])

(***************************************************************************)
(* Records.  A line of bgpdump -m output, split on "|": nfields is the     *)
(* number of fields, ts field [1] of an update line, type field [2],       *)
(* peer_ip, peer_asn, pfx and as_path fields [3] to [6].                   *)
(***************************************************************************)
Line(kind, ts, type, nfields, peer_ip, peer_asn, pfx, as_path) ==
    [kind |-> kind, ts |-> ts, type |-> type, nfields |-> nfields,
     peer_ip |-> peer_ip, peer_asn |-> peer_asn, pfx |-> pfx, as_path |-> as_path]

NoLine == Line("none", 0, "", 0, "", 0, "", <<>>)

\* the AS-path fields besides <<"100", "200">>, with the peer ASN of the
\* line that carries them: prepending, a single AS once collapsed, an AS
\* set, and a first ASN that is not the peer's
OtherPaths ==
    { <<100, <<"100", "100", "200", "300">>>>,
      <<100, <<"100", "100">>>>,
      <<100, <<"100", "{200,201}", "300">>>>,
      <<200, <<"100", "200">>>> }

\* the lines of a RIB dump: the path 100 200 from every peer for every
\* prefix, the other paths from one peer for one prefix
RibLines ==
    { Line("rib", 0, "B", 15, ip, 100, pfx, <<"100", "200">>) :
        ip \in PeerIps, pfx \in Prefixes }
    \cup { Line("rib", 0, "B", 15, "1.2.3.4", ap[1], "10.0.0.0/24", ap[2]) :
        ap \in OtherPaths }

\* the lines of an update file: announcements (15 fields), withdrawals
\* (6 fields) and a peer state change (7 fields, no prefix) at the two ends
\* of the window, ts_start and ts_end + 1 s; an announcement and a
\* withdrawal one tick before the window; an announcement and a withdrawal
\* per peer one tick after it
UpdateLines ==
    { Line("update", TsStart, "A", 15, ip, 100, pfx, <<"100", "200">>) :
        ip \in PeerIps, pfx \in Prefixes }
    \cup { Line("update", TsEnd + TicksPerSecond, "A", 15, "1.2.3.4", ap[1],
                "10.0.0.0/24", ap[2]) : ap \in OtherPaths }
    \cup { Line("update", TsEnd + TicksPerSecond, "W", 6, ip, 100, pfx, <<>>) :
        ip \in PeerIps, pfx \in Prefixes }
    \cup { Line("update", TsStart, "STATE", 7, "1.2.3.4", 100, "3", <<"6">>) }
    \cup { Line("update", TsStart - 1, "A", 15, "1.2.3.4", 100, "10.0.0.0/24",
                <<"100", "200">>),
           Line("update", TsStart - 1, "W", 6, "1.2.3.4", 100, "10.0.0.0/24", <<>>) }
    \cup { Line("update", TsEnd + TicksPerSecond + 1, "A", 15, ip, 100, "10.0.0.0/24",
                <<"100", "200">>) : ip \in PeerIps }
    \cup { Line("update", TsEnd + TicksPerSecond + 1, "W", 6, ip, 100, "10.0.0.0/24",
                <<>>) : ip \in PeerIps }

(***************************************************************************)
(* RIBTable._build_rib_from_url and RIBTable._update_rib_from_url: what    *)
(* one iteration of the loop over the decoder's lines does to the          *)
(* collector's table rib (peer_ip -> pfx -> path), and the notification    *)
(* it sends (evs, empty or one event).                                     *)
(***************************************************************************)
Skip(rib) == [rib |-> rib, evs |-> <<>>, stop |-> FALSE, ret |-> FALSE]

\* peer_to_pfx_to_path[peer_ip][pfx] = path, rib[peer_ip][pfx] = new_path
Install(rib, peer_ip, pfx, path) ==
    Put(rib, peer_ip,
        Put(IF peer_ip \in DOMAIN rib THEN rib[peer_ip] ELSE EmptyMap, pfx, path))

\* lines 215-239 of rib_table.py
build_line_unfiltered(rib, rc, line, filter) ==
    LET p == IntPath(line.as_path)
    IN IF p.ok /\ is_valid_path(p.path, line.peer_asn)
       THEN [rib |-> Install(rib, line.peer_ip, line.pfx, p.path),
             evs |-> Dispatch("add_path", rc, line.peer_ip, line.pfx, p.path, NoPath),
             stop |-> FALSE, ret |-> FALSE]
       ELSE Skip(rib)

build_line(rib, rc, line, filter) ==
    IF filter = {} \/ line.peer_ip \in filter
    THEN LET p == IntPath(line.as_path)
         IN IF p.ok /\ is_valid_path(p.path, line.peer_asn)
            THEN [rib |-> Install(rib, line.peer_ip, line.pfx, p.path),
                  evs |-> Dispatch("add_path", rc, line.peer_ip, line.pfx, p.path, NoPath),
                  stop |-> FALSE, ret |-> FALSE]
            ELSE Skip(rib)       \* n_invalid += 1
    ELSE Skip(rib)

\* lines 282-283 and 289
TooEarly(update_ts) == update_ts < TsStart

TooLate_two_seconds(update_ts) == update_ts > TsEnd + 2 * TicksPerSecond

TooLate(update_ts) == update_ts > TsEnd + TicksPerSecond

\* lines 290-291: self.stop_updating[rc] = True; return
LateOutcome_continue(rib) == [rib |-> rib, evs |-> <<>>, stop |-> TRUE, ret |-> FALSE]

LateOutcome(rib) == [rib |-> rib, evs |-> <<>>, stop |-> TRUE, ret |-> TRUE]

\* the three places that notify a withdrawal of the stored path and pop it:
\* lines 304-311, 326-333 and 356-363
Withdraw_keep_entry(rib, rc, peer_ip, pfx) ==
    IF pfx \in DOMAIN rib[peer_ip]
    THEN [rib |-> rib,
          evs |-> Dispatch("update_withdrawal", rc, peer_ip, pfx, rib[peer_ip][pfx], NoPath),
          stop |-> FALSE, ret |-> FALSE]
    ELSE Skip(rib)

Withdraw_drop_peer(rib, rc, peer_ip, pfx) ==
    IF pfx \in DOMAIN rib[peer_ip]
    THEN [rib |-> IF DOMAIN rib[peer_ip] = {pfx}
                  THEN Pop(rib, peer_ip)
                  ELSE [rib EXCEPT ![peer_ip] = Pop(@, pfx)],
          evs |-> Dispatch("update_withdrawal", rc, peer_ip, pfx, rib[peer_ip][pfx], NoPath),
          stop |-> FALSE, ret |-> FALSE]
    ELSE Skip(rib)

Withdraw(rib, rc, peer_ip, pfx) ==
    IF pfx \in DOMAIN rib[peer_ip]
    THEN [rib |-> [rib EXCEPT ![peer_ip] = Pop(@, pfx)],
          evs |-> Dispatch("update_withdrawal", rc, peer_ip, pfx, rib[peer_ip][pfx], NoPath),
          stop |-> FALSE, ret |-> FALSE]
    ELSE Skip(rib)

\* lines 336-352: a valid announcement
Announce_no_old(rib, rc, peer_ip, pfx, new_path) ==
    [rib |-> Install(rib, peer_ip, pfx, new_path),
     evs |-> Dispatch("update_announcement", rc, peer_ip, pfx, new_path, NoPath),
     stop |-> FALSE, ret |-> FALSE]

Announce(rib, rc, peer_ip, pfx, new_path) ==
    [rib |-> Install(rib, peer_ip, pfx, new_path),
     evs |-> Dispatch("update_announcement", rc, peer_ip, pfx, new_path,
                      IF pfx \in DOMAIN rib[peer_ip] THEN rib[peer_ip][pfx] ELSE NoPath),
     stop |-> FALSE, ret |-> FALSE]

\* lines 278-371 of rib_table.py
update_line_untracked_announce(rib, rc, update, filter) ==
    IF TooEarly(update.ts) THEN Skip(rib)
    ELSE IF TooLate(update.ts) THEN LateOutcome(rib)
    ELSE IF filter # {} /\ update.peer_ip \notin filter THEN Skip(rib)
    ELSE IF update.nfields = 6 /\ update.type = "W"
    THEN IF update.peer_ip \in DOMAIN rib
         THEN Withdraw(rib, rc, update.peer_ip, update.pfx)
         ELSE Skip(rib)
    ELSE IF update.nfields = 15 /\ update.type = "A"
    THEN LET p == IntPath(update.as_path)
             tracked == Put(rib, update.peer_ip,
                            IF update.peer_ip \in DOMAIN rib
                            THEN rib[update.peer_ip] ELSE EmptyMap)
         IN IF ~p.ok
            THEN Withdraw(tracked, rc, update.peer_ip, update.pfx)
            ELSE IF is_valid_path(p.path, update.peer_asn)
            THEN Announce(tracked, rc, update.peer_ip, update.pfx, p.path)
            ELSE Withdraw(tracked, rc, update.peer_ip, update.pfx)
    ELSE Skip(rib)

update_line(rib, rc, update, filter) ==
    IF TooEarly(update.ts) THEN Skip(rib)
    ELSE IF TooLate(update.ts) THEN LateOutcome(rib)
    ELSE IF filter # {} /\ update.peer_ip \notin filter THEN Skip(rib)
    ELSE IF update.nfields = 6 /\ update.type = "W"
    THEN IF update.peer_ip \in DOMAIN rib
         THEN Withdraw(rib, rc, update.peer_ip, update.pfx)
         ELSE Skip(rib)
    ELSE IF update.nfields = 15 /\ update.type = "A"
    THEN IF update.peer_ip \in DOMAIN rib
         THEN LET p == IntPath(update.as_path)
              IN IF ~p.ok
                 THEN Withdraw(rib, rc, update.peer_ip, update.pfx)    \* except ValueError
                 ELSE IF is_valid_path(p.path, update.peer_asn)
                 THEN Announce(rib, rc, update.peer_ip, update.pfx, p.path)
                 ELSE Withdraw(rib, rc, update.peer_ip, update.pfx)
         ELSE Skip(rib)
    ELSE Skip(rib)

(***************************************************************************)
(* History kept for the properties: what the last record applied to a key  *)
(* asks for, read off the record alone (integer tokens, runs of equal      *)
(* ASNs collapsed).  No action reads it.                                   *)
(***************************************************************************)
RECURSIVE Collapse(_)
Collapse(path) ==
    IF Len(path) <= 1 THEN path
    ELSE IF path[1] = path[2] THEN Collapse(Tail(path))
    ELSE <<path[1]>> \o Collapse(Tail(path))

AllInts(toks) == \A i \in 1..Len(toks) : ParseInt(toks[i]).ok /\ ParseInt(toks[i]).val >= 0

CanonicalOf(toks) == Collapse([i \in 1..Len(toks) |-> ParseInt(toks[i]).val])

Accepted(toks, peer_asn) ==
    /\ AllInts(toks)
    /\ Len(CanonicalOf(toks)) >= 2
    /\ CanonicalOf(toks)[1] = peer_asn

Allowed(peer_ip) == peer_ip_filter = {} \/ peer_ip \in peer_ip_filter

WithinWindow(ts) == TsStart <= ts /\ ts <= TsEnd + TicksPerSecond

HistOfRibLine(rc, line) ==
    IF Allowed(line.peer_ip) /\ Accepted(line.as_path, line.peer_asn)
    THEN [hist EXCEPT ![<<rc, line.peer_ip, line.pfx>>] =
              [valid |-> TRUE, asn |-> line.peer_asn, path |-> CanonicalOf(line.as_path)]]
    ELSE hist

HistOfUpdateLine(rc, update) ==
    IF /\ WithinWindow(update.ts)
       /\ Allowed(update.peer_ip)
       /\ update.peer_ip \in DOMAIN data[rc]
       /\ update.type \in {"A", "W"}
    THEN IF update.type = "A" /\ Accepted(update.as_path, update.peer_asn)
         THEN [hist EXCEPT ![<<rc, update.peer_ip, update.pfx>>] =
                  [valid |-> TRUE, asn |-> update.peer_asn,
                   path |-> CanonicalOf(update.as_path)]]
         ELSE [hist EXCEPT ![<<rc, update.peer_ip, update.pfx>>] = NoHist]
    ELSE hist

(***************************************************************************)
(* The run of BGPDownloader.warm_update_process: build() on the start RIB  *)
(* of every collector, then one update() per update timestamp until every  *)
(* collector has stopped or the timestamps are used up.                    *)
(***************************************************************************)
\* BGPDownloader.__init__ with no peer_asns, on the RIS collectors
InitDownloader ==
    /\ peer_asns = {}
    /\ projects = {"RIS"}
    /\ date_range = 0
    /\ closest_rib = <<>>

\* no ground-truth table yet, nothing logged by compare
InitGround ==
    /\ end_data = EmptyMap
    /\ end_as_graph_observer = EmptyGraphObserver
    /\ logs = {}

\* the driver of a run on Collectors whose set_urls and download_urls have
\* returned; the registry, the schedule of dumps and the I/O are followed
\* in the specification of the whole run only
InitDriver ==
    /\ collectors = Collectors
    /\ interval = 0
    /\ parses = TRUE
    /\ ts_end = 0
    /\ files = EmptyMap
    /\ raised = ""
    /\ effects = {}
    /\ output_files = <<>>
    /\ timestamps = <<>>
    /\ calls = <<>>

\* the graph observer of the run has the multigraph observer for
\* collaborator; nothing dumped, no function applied on its own
InitAside ==
    /\ multigraph_observer = "multigraph"
    /\ written = <<>>
    /\ arg = <<>>
    /\ result = <<>>
    /\ attached = ObserverNames

Init ==
    /\ peer_ip_filter \in PeerIpFilters
    /\ data = EmptyMap
    /\ stop_updating = EmptyMap
    /\ as_graph_observer = EmptyGraphObserver
    /\ as_multigraph_observer = EmptyGraphObserver
    /\ update_count_observer = EmptyUpdateCount
    /\ path_observer = EmptyPathObserver
    /\ mode = "new"
    /\ todo = <<>>
    /\ build_result = EmptyMap
    /\ rec = NoLine
    /\ notes = <<>>
    /\ n_lines = 0 /\ n_calls = 0
    /\ hist = [k \in Keys |-> NoHist]
    /\ late_seen = FALSE
    /\ snap = NoSnap
    /\ trip = "none"
    /\ InitDownloader
    /\ InitGround
    /\ InitDriver
    /\ InitAside
    /\ compare = FALSE

\* rib_table.build(rc_to_url) is entered: the first dump is opened
BuildStart ==
    /\ mode = "new"
    /\ mode' = "build"
    /\ todo' = Collectors
    /\ build_result' = Put(EmptyMap, Collectors[1], EmptyMap)
    /\ UNCHANGED <<aside, driver, downloader, ground, peer_ip_filter, data, stop_updating, observers, rec, notes,
                   n_lines, n_calls, histvars>>

\* one iteration of "for line in p.stdout" in _build_rib_from_url
BuildRecord(line) ==
    /\ mode = "build"
    /\ n_lines < MaxLines
    /\ LET rc == Head(todo)
           res == build_line(build_result[rc], rc, line, peer_ip_filter)
       IN /\ build_result' = [build_result EXCEPT ![rc] = res.rib]
          /\ Notify(res.evs)
          /\ notes' = NotesOf(res.evs)
          /\ hist' = HistOfRibLine(rc, line)
    /\ rec' = line
    /\ n_lines' = n_lines + 1
    /\ UNCHANGED <<aside, driver, downloader, ground, peer_ip_filter, data, stop_updating, mode, todo, n_calls,
                   late_seen, snap, trip>>

\* the dump of the current collector is exhausted; after the last one
\* build() assigns self.data and resets self.stop_updating
BuildEOF ==
    /\ mode = "build"
    /\ todo' = Tail(todo)
    /\ IF Tail(todo) = <<>>
       THEN /\ data' = build_result
            /\ stop_updating' = [rc \in SeqRange(Collectors) |-> FALSE]
            /\ build_result' = EmptyMap
            /\ mode' = "idle"
       ELSE /\ build_result' = Put(build_result, Head(Tail(todo)), EmptyMap)
            /\ UNCHANGED <<data, stop_updating, mode>>
    /\ rec' = NoLine
    /\ notes' = <<>>
    /\ UNCHANGED <<aside, driver, downloader, ground, peer_ip_filter, observers, n_lines, n_calls, histvars>>

\* the replay loop takes the next timestamp and calls rib_table.update
UpdateStart ==
    /\ mode = "idle"
    /\ n_calls < MaxUpdates
    /\ mode' = "update"
    /\ todo' = Collectors
    /\ n_calls' = n_calls + 1
    /\ UNCHANGED <<aside, driver, downloader, ground, peer_ip_filter, data, stop_updating, observers, build_result,
                   rec, notes, n_lines, histvars>>

\* where the driver stands once update() has returned: "break" when every
\* collector has stopped, the end of the loop after the last timestamp
AfterUpdate(stop) ==
    IF (\A rc \in DOMAIN stop : stop[rc]) \/ n_calls = MaxUpdates THEN "done" ELSE "idle"

\* the update() call is left with the file of the current collector
LeaveFile_and_call(stop) ==
    /\ todo' = <<>>
    /\ mode' = AfterUpdate(stop)
    /\ late_seen' = FALSE

\* the file of the current collector is left (EOF or return)
LeaveFile(stop) ==
    /\ todo' = Tail(todo)
    /\ mode' = IF Tail(todo) = <<>> THEN AfterUpdate(stop) ELSE mode
    /\ late_seen' = FALSE

\* one iteration of "for update in p.stdout" in _update_rib_from_url
UpdateRecord(update) ==
    /\ mode = "update"
    /\ n_lines < MaxLines
    /\ LET rc == Head(todo)
           res == update_line(data[rc], rc, update, peer_ip_filter)
           stop == IF res.stop THEN [stop_updating EXCEPT ![rc] = TRUE] ELSE stop_updating
       IN /\ data' = [data EXCEPT ![rc] = res.rib]
          /\ stop_updating' = stop
          /\ Notify(res.evs)
          /\ notes' = NotesOf(res.evs)
          /\ hist' = HistOfUpdateLine(rc, update)
          /\ IF res.ret
             THEN LeaveFile(stop)
             ELSE /\ late_seen' = (late_seen \/ res.stop)
                  /\ UNCHANGED <<mode, todo>>
    /\ rec' = update
    /\ n_lines' = n_lines + 1
    /\ UNCHANGED <<aside, driver, downloader, ground, peer_ip_filter, build_result, n_calls, snap, trip>>

\* the update file of the current collector is exhausted
UpdateEOF ==
    /\ mode = "update"
    /\ LeaveFile(stop_updating)
    /\ rec' = NoLine
    /\ notes' = <<>>
    /\ UNCHANGED <<aside, driver, downloader, ground, peer_ip_filter, data, stop_updating, observers, build_result,
                   n_lines, n_calls, hist, snap, trip>>

Next ==
    \/ BuildStart
    \/ \E line \in RibLines : BuildRecord(line)
    \/ BuildEOF
    \/ UpdateStart
    \/ \E update \in UpdateLines : UpdateRecord(update)
    \/ UpdateEOF

Spec == Init /\ [][Next]_vars

(***************************************************************************)
(* The observers driven directly: any sequence of add_path,                *)
(* update_withdrawal and update_announcement calls, made on the four       *)
(* observers alike, whether or not the path removed was ever added.        *)
(***************************************************************************)
\* the paths handed to the observers: an edge, the same edge walked back
\* and forth, and a path that shares the edge in the other direction
ObsPaths == { <<100, 200>>, <<100, 200, 100>>, <<200, 100, 300>> }

\* who the calls are made for: two peers in one family, one peer in both
ObsTargets ==
    { <<"1.2.3.4", "ipv4", "10.0.0.0/24">>,
      <<"5.6.7.8", "ipv4", "10.0.0.0/24">>,
      <<"1.2.3.4", "ipv6", "2001:db8::/32">> }

ObsEvents ==
    { Event(m, t[2], "rrc00", t[1], t[3], p, NoPath) :
        m \in {"add_path", "update_withdrawal"}, t \in ObsTargets, p \in ObsPaths }
    \cup { Event("update_announcement", t[2], "rrc00", t[1], t[3], p, o) :
        t \in ObsTargets \ {<<"5.6.7.8", "ipv4", "10.0.0.0/24">>},
        p \in ObsPaths, o \in ObsPaths \cup {NoPath} }

InitObs ==
    /\ peer_ip_filter = {}
    /\ data = EmptyMap
    /\ stop_updating = EmptyMap
    /\ as_graph_observer = EmptyGraphObserver
    /\ as_multigraph_observer = EmptyGraphObserver
    /\ update_count_observer = EmptyUpdateCount
    /\ path_observer = EmptyPathObserver
    /\ mode = "calls"
    /\ todo = <<>>
    /\ build_result = EmptyMap
    /\ rec = NoLine
    /\ notes = <<>>
    /\ n_lines = 0 /\ n_calls = 0
    /\ hist = [k \in Keys |-> NoHist]
    /\ late_seen = FALSE
    /\ snap = NoSnap
    /\ trip = "none"
    /\ InitDownloader
    /\ InitGround
    /\ InitDriver
    /\ InitAside
    /\ compare = FALSE

\* one call, made on every observer in attachment order
ObsCall(ev) ==
    /\ mode = "calls"
    /\ n_calls < MaxCalls
    /\ Notify(<<ev>>)
    /\ notes' = NotesOf(<<ev>>)
    /\ n_calls' = n_calls + 1
    /\ IF ev.method = "add_path"
       THEN /\ snap' = [graph |-> as_graph_observer, path |-> path_observer]
            /\ trip' = "added"
       ELSE IF /\ ev.method = "update_withdrawal"
               /\ trip = "added"
               /\ ev.path = notes[1].ev.path
               /\ ev.fam = notes[1].ev.fam
       THEN /\ snap' = snap
            /\ trip' = "removed"
       ELSE /\ snap' = NoSnap
            /\ trip' = "none"
    /\ UNCHANGED <<aside, driver, downloader, ground, peer_ip_filter, data, stop_updating, mode, todo, build_result,
                   rec, n_lines, hist, late_seen>>

NextObs == \E ev \in ObsEvents : ObsCall(ev)

SpecObs == InitObs /\ [][NextObs]_vars

(***************************************************************************)
(* The run on the records of the scenarios: the path 100 200 300 in the    *)
(* RIB dumps, then announcements of 100 200 400 and 100 200 300 and a      *)
(* withdrawal, all stamped ts_start.  The driver may have been given a     *)
(* list of peer ASNs.                                                      *)
(***************************************************************************)
ScenarioRibLines ==
    { Line("rib", 0, "B", 15, ip, 100, "10.0.0.0/24", <<"100", "200", "300">>) :
        ip \in PeerIps }

ScenarioUpdateLines ==
    { Line("update", TsStart, "A", 15, ip, 100, "10.0.0.0/24", <<"100", "200", "400">>) :
        ip \in PeerIps }
    \cup { Line("update", TsStart, "A", 15, "1.2.3.4", 100, "10.0.0.0/24",
                <<"100", "200", "300">>),
           Line("update", TsStart, "A", 15, "1.2.3.4", 100, "2001:db8::/32",
                <<"100", "200", "400">>),
           Line("update", TsStart, "W", 6, "1.2.3.4", 100, "10.0.0.0/24", <<>>) }

\* the lists peer_asns the driver may be configured with
PeerAsnLists == {{}, {200}}

InitScenario ==
    /\ peer_ip_filter \in PeerIpFilters
    /\ data = EmptyMap
    /\ stop_updating = EmptyMap
    /\ as_graph_observer = EmptyGraphObserver
    /\ as_multigraph_observer = EmptyGraphObserver
    /\ update_count_observer = EmptyUpdateCount
    /\ path_observer = EmptyPathObserver
    /\ mode = "new"
    /\ todo = <<>>
    /\ build_result = EmptyMap
    /\ rec = NoLine
    /\ notes = <<>>
    /\ n_lines = 0 /\ n_calls = 0
    /\ hist = [k \in Keys |-> NoHist]
    /\ late_seen = FALSE
    /\ snap = NoSnap
    /\ trip = "none"
    /\ peer_asns \in PeerAsnLists
    /\ projects = {"RIS"}
    /\ date_range = 0
    /\ closest_rib = <<>>
    /\ InitGround
    /\ InitDriver
    /\ InitAside
    /\ compare = FALSE

NextScenario ==
    \/ BuildStart
    \/ \E line \in ScenarioRibLines : BuildRecord(line)
    \/ BuildEOF
    \/ UpdateStart
    \/ \E update \in ScenarioUpdateLines : UpdateRecord(update)
    \/ UpdateEOF

SpecScenario == InitScenario /\ [][NextScenario]_vars

(***************************************************************************)
(* The comparison with the ground truth that ends warm_update_process: a   *)
(* second table, end_rib_table, with one graph observer named "graph", is  *)
(* built from the RIB dumps stamped ts_end, and rib_table.compare is       *)
(* called on it.                                                           *)
(***************************************************************************)
LogEvent(level, msg, rc, peer_ip, value) ==
    [level |-> level, msg |-> msg, rc |-> rc, peer_ip |-> peer_ip, value |-> value]

\* dict_diff without the test of line 400
dict_diff_all_shared(dict1, dict2) ==
    LET keys_diff == (DOMAIN dict1 \ DOMAIN dict2) \cup (DOMAIN dict2 \ DOMAIN dict1)
        shared_keys == DOMAIN dict1 \cap DOMAIN dict2
    IN [added |-> Restrict(dict2, keys_diff \cap DOMAIN dict2),
        removed |-> Restrict(dict1, keys_diff \cap DOMAIN dict1),
        modified |-> [key \in shared_keys |-> <<dict1[key], dict2[key]>>]]

\* dict_diff(dict1, dict2)
dict_diff(dict1, dict2) ==
    LET keys_diff == (DOMAIN dict1 \ DOMAIN dict2) \cup (DOMAIN dict2 \ DOMAIN dict1)
        shared_keys == DOMAIN dict1 \cap DOMAIN dict2
    IN [added |-> Restrict(dict2, keys_diff \cap DOMAIN dict2),
        removed |-> Restrict(dict1, keys_diff \cap DOMAIN dict1),
        modified |-> [key \in {x \in shared_keys : dict1[x] # dict2[x]} |->
                         <<dict1[key], dict2[key]>>]]

\* other.data[rc][peer_ip] on the defaultdict(dict) that
\* _build_rib_from_url returned: a missing peer_ip is inserted with {}
Touch(rib, peer_ip) ==
    IF peer_ip \in DOMAIN rib THEN rib ELSE Put(rib, peer_ip, EmptyMap)

\* the body of "for peer_ip in self.data[rc]" in RIBTable.compare: the
\* logging calls made for one peer; the except KeyError branch is the
\* one place that logs at error level
compare_peer(rc, peer_ip, own, other_rib) ==
    LET truth == Touch(other_rib, peer_ip)[peer_ip]
        diff == dict_diff(own, truth)
    IN IF Cardinality(DOMAIN truth) = 0 THEN {}
       ELSE {LogEvent("info", "Performing RIB check", rc, peer_ip, 0)} \cup
            (IF diff.added = EmptyMap /\ diff.removed = EmptyMap /\ diff.modified = EmptyMap
             THEN {LogEvent("info", "No RIB reconstruction error", rc, peer_ip, 0)}
             ELSE {LogEvent("info", "pfx present only in ground truth", rc, peer_ip,
                            Cardinality(DOMAIN diff.added)),
                   LogEvent("info", "pfx present only in my processed version", rc, peer_ip,
                            Cardinality(DOMAIN diff.removed)),
                   LogEvent("info", "pfx present in both but with different as-paths",
                            rc, peer_ip, Cardinality(DOMAIN diff.modified))})

\* the position of node n in the node dictionary of a graph
Position(nodes, n) == CHOOSE i \in 1..Len(nodes) : nodes[i] = n

\* set(graph.edges()): networkx reports an edge once, as the pair (u, v)
\* with u the end that comes first in the node dictionary
edges(graph) ==
    { e \in SeqRange(graph.nodes) \X SeqRange(graph.nodes) :
        /\ Edge(e[1], e[2]) \in DOMAIN graph.edges
        /\ Position(graph.nodes, e[1]) <= Position(graph.nodes, e[2]) }

\* nx.isolates(graph): the nodes without an edge
isolates(graph) ==
    { n \in SeqRange(graph.nodes) : \A e \in DOMAIN graph.edges : n \notin e }

\* graph.remove_nodes_from(ns), the order of the other nodes kept
remove_nodes_from(graph, ns) ==
    [graph EXCEPT !.nodes = SelectSeq(graph.nodes, LAMBDA n : n \notin ns)]

Reversed(es) == { <<e[2], e[1]>> : e \in es }

compare_weighted_graphs(graph1, graph2) ==
    [added_nodes |-> SeqRange(graph2.nodes) \ SeqRange(graph1.nodes),
     removed_nodes |-> SeqRange(graph1.nodes) \ SeqRange(graph2.nodes),
     added_edges |-> (edges(graph2) \ edges(graph1)) \ Reversed(edges(graph1)),
     removed_edges |-> (edges(graph1) \ edges(graph2)) \ Reversed(edges(graph2)),
     modified_edges |->
        [e \in { x \in edges(graph1) \cap edges(graph2) :
                    graph1.edges[Edge(x[1], x[2])] # graph2.edges[Edge(x[1], x[2])] } |->
            <<graph1.edges[Edge(e[1], e[2])], graph2.edges[Edge(e[1], e[2])]>>]]

ComparisonKeys ==
    {"added_nodes", "removed_nodes", "added_edges", "removed_edges", "modified_edges"}

\* the value of a key of the comparison is empty (len(value) > 0 fails)
IsEmpty(comparison, key) ==
    IF key = "modified_edges" THEN comparison[key] = EmptyMap ELSE comparison[key] = {}

\* ASGraphObserver.compare: the graph of self once its isolated nodes are
\* removed, and the logging calls
ASGraph_compare(self_graph_ipv4, other_graph_ipv4) ==
    LET pruned == remove_nodes_from(self_graph_ipv4, isolates(self_graph_ipv4))
        comparison == compare_weighted_graphs(pruned, other_graph_ipv4)
        found == { key \in ComparisonKeys : ~IsEmpty(comparison, key) }
    IN [graph_ipv4 |-> pruned,
        logs |-> {LogEvent("info", "Performing graph check for as_graph_ipv4", "", "", 0)}
                 \cup { LogEvent("debug", key, "", "", comparison[key]) : key \in found }
                 \cup {LogEvent("info",
                                IF found = {} THEN "No reconstruction errors"
                                ELSE "Reconstruction errors", "", "", 0)}]

\* the start RIB dumps and the dumps stamped ts_end are drawn from these
\* lines, the update files from the next ones
CompareRibLines ==
    { Line("rib", 0, "B", 15, "1.2.3.4", 100, "10.0.0.0/24", <<"100", "200">>),
      Line("rib", 0, "B", 15, "1.2.3.4", 100, "10.0.0.0/24", <<"100", "200", "300">>),
      Line("rib", 0, "B", 15, "5.6.7.8", 100, "10.0.0.0/24", <<"100", "200">>),
      Line("rib", 0, "B", 15, "1.2.3.4", 100, "2001:db8::/32", <<"100", "200">>) }

CompareUpdateLines ==
    { Line("update", TsStart, "W", 6, "1.2.3.4", 100, "10.0.0.0/24", <<>>),
      Line("update", TsStart, "A", 15, "1.2.3.4", 100, "10.0.0.0/24",
           <<"100", "200", "300">>),
      Line("update", TsEnd + TicksPerSecond + 1, "W", 6, "1.2.3.4", 100, "10.0.0.0/24",
           <<>>) }

\* the run whose ts_end is a RIB instant: set_urls has set the compare flag
InitCompare ==
    /\ peer_ip_filter \in PeerIpFilters
    /\ data = EmptyMap
    /\ stop_updating = EmptyMap
    /\ as_graph_observer = EmptyGraphObserver
    /\ as_multigraph_observer = EmptyGraphObserver
    /\ update_count_observer = EmptyUpdateCount
    /\ path_observer = EmptyPathObserver
    /\ mode = "new"
    /\ todo = <<>>
    /\ build_result = EmptyMap
    /\ rec = NoLine
    /\ notes = <<>>
    /\ n_lines = 0 /\ n_calls = 0
    /\ hist = [k \in Keys |-> NoHist]
    /\ late_seen = FALSE
    /\ snap = NoSnap
    /\ trip = "none"
    /\ InitDownloader
    /\ InitGround
    /\ InitDriver
    /\ InitAside
    /\ compare = TRUE

\* the replay loop is over (every collector stopped, or no timestamp is
\* left) and self.compare is set: end_rib_table.build(rc_to_url) is entered
EndBuildStart ==
    /\ mode \in {"idle", "done"}
    /\ compare
    /\ mode' = "end_build"
    /\ todo' = Collectors
    /\ build_result' = Put(EmptyMap, Collectors[1], EmptyMap)
    /\ rec' = NoLine
    /\ notes' = <<>>
    /\ UNCHANGED <<aside, driver, downloader, ground, peer_ip_filter, data, stop_updating, observers,
                   n_lines, n_calls, histvars>>

\* one iteration of "for line in p.stdout" in _build_rib_from_url, for
\* end_rib_table: its one observer is notified
EndBuildRecord(line) ==
    /\ mode = "end_build"
    /\ n_lines < MaxLines
    /\ LET rc == Head(todo)
           res == build_line(build_result[rc], rc, line, peer_ip_filter)
       IN /\ build_result' = [build_result EXCEPT ![rc] = res.rib]
          /\ IF res.evs = <<>>
             THEN /\ notes' = <<>>
                  /\ UNCHANGED end_as_graph_observer
             ELSE /\ notes' = <<[observer |-> "graph", ev |-> res.evs[1]]>>
                  /\ end_as_graph_observer' =
                         BaseGraph_notify("graph", end_as_graph_observer, res.evs[1])
    /\ rec' = line
    /\ n_lines' = n_lines + 1
    /\ UNCHANGED <<aside, driver, downloader, end_data, logs, peer_ip_filter, data, stop_updating,
                   observers, mode, todo, n_calls, histvars>>

\* a ground-truth dump is exhausted; after the last one build() assigns
\* end_rib_table.data
EndBuildEOF ==
    /\ mode = "end_build"
    /\ todo' = Tail(todo)
    /\ IF Tail(todo) = <<>>
       THEN /\ end_data' = build_result
            /\ build_result' = EmptyMap
            /\ mode' = "end_built"
       ELSE /\ build_result' = Put(build_result, Head(Tail(todo)), EmptyMap)
            /\ UNCHANGED <<end_data, mode>>
    /\ rec' = NoLine
    /\ notes' = <<>>
    /\ UNCHANGED <<aside, driver, downloader, end_as_graph_observer, logs, peer_ip_filter, data,
                   stop_updating, observers, n_lines, n_calls, histvars>>

\* rib_table.compare(end_rib_table): the loop over self.data, then
\* own_observer.compare(other_observer) for the observers of equal name,
\* which are the two graph observers (the other compare methods pass)
Compare ==
    /\ mode = "end_built"
    /\ mode' = "compared"
    /\ end_data' = [rc \in DOMAIN end_data |->
                       [peer_ip \in DOMAIN end_data[rc] \cup
                                    (IF rc \in DOMAIN data THEN DOMAIN data[rc] ELSE {}) |->
                           Touch(end_data[rc], peer_ip)[peer_ip]]]
    /\ LET checked == ASGraph_compare(as_graph_observer.graph_ipv4,
                                      end_as_graph_observer.graph_ipv4)
       IN /\ as_graph_observer' = [as_graph_observer EXCEPT !.graph_ipv4 = checked.graph_ipv4]
          /\ logs' = checked.logs \cup
                     UNION { UNION { compare_peer(rc, peer_ip, data[rc][peer_ip],
                                                  end_data[rc]) :
                                         peer_ip \in DOMAIN data[rc] } :
                             rc \in DOMAIN data }
    /\ UNCHANGED <<aside, driver, downloader, end_as_graph_observer, peer_ip_filter, data, stop_updating,
                   as_multigraph_observer, update_count_observer, path_observer, todo,
                   build_result, rec, notes, n_lines, n_calls, histvars>>

NextCompare ==
    \/ BuildStart
    \/ \E line \in CompareRibLines : BuildRecord(line)
    \/ BuildEOF
    \/ UpdateStart
    \/ \E update \in CompareUpdateLines : UpdateRecord(update)
    \/ UpdateEOF
    \/ EndBuildStart
    \/ \E line \in CompareRibLines : EndBuildRecord(line)
    \/ EndBuildEOF
    \/ Compare

SpecCompare == InitCompare /\ [][NextCompare]_vars

(***************************************************************************)
(* BGPDownloader.set_urls: the start of the interval is moved to a RIB     *)
(* instant.  Instants are counted in minutes from a midnight.              *)
(***************************************************************************)
MinutesPerHour == 60
HoursPerDay == 24
\* a RIB every 8 h at RIS and every 2 h at RouteViews
RisRibHours == 8
RvRibHours == 2
\* range(10) and range(50): the number of candidate instants
RisRibCandidates == 10
RvRibCandidates == 50
\* the requested start is at most this many hours after the midnight
MaxStartHour == 30

\* the values of ts_start that __init__ may parse from date_range
StartInstants ==
    { h * MinutesPerHour + m : h \in 0..MaxStartHour, m \in {0, MinutesPerHour \div 2} }

\* datetime(ts.year, ts.month, ts.day)
Midnight(ts) == ts - (ts % (HoursPerDay * MinutesPerHour))

\* the list closest_ribs
closest_ribs(ts, projs) ==
    IF "RIS" \in projs
    THEN [i \in 1..RisRibCandidates |->
             Midnight(ts) - HoursPerDay * MinutesPerHour
                 + (i - 1) * RisRibHours * MinutesPerHour]
    ELSE [i \in 1..RvRibCandidates |->
             Midnight(ts) - HoursPerDay * MinutesPerHour
                 + (i - 1) * RvRibHours * MinutesPerHour]

Abs(x) == IF x < 0 THEN -x ELSE x

\* np.argmin: the first index that holds the least value
argmin(values) ==
    CHOOSE i \in 1..Len(values) :
        /\ \A j \in 1..Len(values) : values[i] <= values[j]
        /\ \A j \in 1..(i - 1) : values[j] > values[i]

\* closest_ribs[np.argmin([abs((candidate - ts_start).total_seconds()) ...])]
ClosestRib(ts, projs) ==
    LET candidates == closest_ribs(ts, projs)
    IN candidates[argmin([i \in 1..Len(candidates) |-> Abs(candidates[i] - ts)])]

\* RV_UPDATE_RES and RIS_UPDATE_RES of url_generation.py, in minutes
RV_UPDATE_RES == 15
RIS_UPDATE_RES == 5
\* range(10): the number of candidate instants for the end of the interval
UpdateCandidates == 10

\* ts.hour and ts.minute
Hour(ts) == (ts \div MinutesPerHour) % HoursPerDay
Minute(ts) == ts % MinutesPerHour

\* the list closest_updates: from one hour before the hour of ts_end on,
\* every RV_UPDATE_RES
closest_updates(ts) ==
    [i \in 1..UpdateCandidates |->
        (ts - Minute(ts)) - MinutesPerHour + (i - 1) * RV_UPDATE_RES]

\* closest_updates[np.argmin([abs((candidate - ts_end).total_seconds()) ...])]
ClosestUpdate(ts) ==
    LET candidates == closest_updates(ts)
    IN candidates[argmin([i \in 1..Len(candidates) |-> Abs(candidates[i] - ts)])]

\* ris_updates_dts and rv_updates_dts: ts_start + i * res for i in
\* range(-1, updates_number + 2), updates_number = floor(duration / res) + 1
updates_dts(start, end, res) ==
    { start + i * res : i \in (-1)..(((end - start) \div res) + 2) }

\* the collector names of the model and what the tests of the code make of
\* them: collector[:3] == "rrc" and rc.startswith("rrc"),
\* "route-views" in collector, rc.startswith("route-views")
CollectorNames == {"rrc00", "route-views2", "sg.route-views", "bgpmon"}
StartsWithRrc(rc) == rc = "rrc00"
ContainsRouteViews(rc) == rc \in {"route-views2", "sg.route-views"}
StartsWithRouteViews(rc) == rc = "route-views2"

\* url_generation.py: a url is kept as the parts it is joined from
RIS_url(rc, ts, bgptype) ==
    [host |-> "https://data.ris.ripe.net/", rc |-> rc, dir |-> "",
     name |-> IF bgptype = "rib" THEN "bview" ELSE "updates", ts |-> ts, ext |-> "gz"]

RV_url(rc, ts, bgptype) ==
    [host |-> "https://routeviews.org/", rc |-> IF rc # "route-views2" THEN rc ELSE "",
     dir |-> IF bgptype = "rib" THEN "RIBS" ELSE "UPDATES",
     name |-> IF bgptype = "rib" THEN "rib" ELSE "updates", ts |-> ts, ext |-> "bz2"]

\* d.update(e)
PutAll(f, g) == [k \in DOMAIN f \cup DOMAIN g |-> IF k \in DOMAIN g THEN g[k] ELSE f[k]]

\* what the loop over self.collectors of set_urls has got to: the rows of
\* self.files that hold a url, self.compare, and the exception raised if any
Registry(fs, cmp, err) == [files |-> fs, compare |-> cmp, raised |-> err]

\* lines 171 to 188: the start RIB, the update files, and the ground-truth
\* RIB when ts_end is a RIS RIB instant
set_urls_ris(reg, rc, start, end) ==
    LET with_rib == Put(reg.files, <<start, rc, "rib">>, RIS_url(rc, start, "rib"))
        with_updates ==
            PutAll(with_rib,
                   [k \in { <<dt, rc, "update">> : dt \in updates_dts(start, end, RIS_UPDATE_RES) }
                       |-> RIS_url(rc, k[1], "update")])
    IN IF Minute(end) = 0 /\ Hour(end) % RisRibHours = 0
       THEN Registry(Put(with_updates, <<end, rc, "rib">>, RIS_url(rc, end, "rib")),
                     TRUE, reg.raised)
       ELSE Registry(with_updates, reg.compare, reg.raised)

\* lines 190 to 213; with both projects "self.ts_end % 8" takes the
\* remainder of a datetime, which raises TypeError
set_urls_rv(reg, rc, start, end, projs) ==
    LET with_rib == Put(reg.files, <<start, rc, "rib">>, RV_url(rc, start, "rib"))
        with_updates ==
            PutAll(with_rib,
                   [k \in { <<dt, rc, "update">> : dt \in updates_dts(start, end, RV_UPDATE_RES) }
                       |-> RV_url(rc, k[1], "update")])
    IN IF Minute(end) = 0 /\ Hour(end) % RvRibHours = 0
       THEN IF Cardinality(projs) = 1
            THEN Registry(Put(with_updates, <<end, rc, "rib">>, RV_url(rc, end, "rib")),
                          TRUE, reg.raised)
            ELSE IF Cardinality(projs) = 2
            THEN Registry(with_updates, reg.compare, "TypeError")
            ELSE Registry(with_updates, reg.compare, reg.raised)
       ELSE Registry(with_updates, reg.compare, reg.raised)

\* "for rc in self.collectors", lines 170 to 213, from collector i on
RECURSIVE register(_, _, _, _, _, _)
register(reg, rcs, i, start, end, projs) ==
    IF i > Len(rcs) \/ reg.raised # "" THEN reg
    ELSE LET ris == IF StartsWithRrc(rcs[i])
                    THEN set_urls_ris(reg, rcs[i], start, end) ELSE reg
             rv == IF StartsWithRouteViews(rcs[i])
                   THEN set_urls_rv(ris, rcs[i], start, end, projs) ELSE ris
         IN register(rv, rcs, i + 1, start, end, projs)

\* an I/O effect: what was done, and to what
Effect(op, target) == [op |-> op, target |-> target]

\* the lists of collectors a run may be configured with
CollectorLists ==
    { <<"rrc00">>, <<"route-views2">>, <<"rrc00", "route-views2">>,
      <<"route-views2", "rrc00">>, <<"sg.route-views">>, <<"rrc00", "bgpmon">> }

\* the requested ends of the interval: on a RIS RIB instant, on a RouteViews
\* RIB instant, off the RIB instants, and minutes that set_urls moves
EndHours == {8, 9, 10, 16}
EndMinutes == {0, 7, 50}
EndInstants == { h * MinutesPerHour + m : h \in EndHours, m \in EndMinutes }

\* the dump intervals, in minutes
Intervals == {15}

\* the arguments BGPDownloader is constructed with
InitUrls ==
    /\ peer_ip_filter = {}
    /\ data = EmptyMap
    /\ stop_updating = EmptyMap
    /\ as_graph_observer = EmptyGraphObserver
    /\ as_multigraph_observer = EmptyGraphObserver
    /\ update_count_observer = EmptyUpdateCount
    /\ path_observer = EmptyPathObserver
    /\ mode = "args"
    /\ todo = <<>>
    /\ build_result = EmptyMap
    /\ rec = NoLine
    /\ notes = <<>>
    /\ n_lines = 0 /\ n_calls = 0
    /\ hist = [k \in Keys |-> NoHist]
    /\ late_seen = FALSE
    /\ snap = NoSnap
    /\ trip = "none"
    /\ peer_asns = {}
    /\ projects = {}
    /\ closest_rib = <<>>
    /\ InitGround
    /\ collectors \in CollectorLists
    /\ interval \in Intervals
    /\ \/ parses = TRUE /\ date_range \in StartInstants /\ ts_end \in EndInstants
       \/ parses = FALSE /\ date_range = 0 /\ ts_end = 0
    /\ files = EmptyMap
    /\ compare = FALSE
    /\ raised = ""
    /\ effects = {}
    /\ output_files = <<>>
    /\ timestamps = <<>>
    /\ calls = <<>>
    /\ InitAside

\* "for collector in collectors", lines 116 to 123: self.projects when the
\* loop ends or raises
RECURSIVE projects_of(_, _, _)
projects_of(projs, rcs, i) ==
    IF i > Len(rcs) THEN [projects |-> projs, raised |-> ""]
    ELSE IF StartsWithRrc(rcs[i]) THEN projects_of(projs \cup {"RIS"}, rcs, i + 1)
    ELSE IF ContainsRouteViews(rcs[i]) THEN projects_of(projs \cup {"RV"}, rcs, i + 1)
    ELSE [projects |-> projs, raised |-> "ValueError"]

\* BGPDownloader.__init__: strptime, os.makedirs(self.processed_dir), then
\* the projects of the collectors
Construct ==
    /\ mode = "args"
    /\ IF ~parses
       THEN /\ raised' = "ValueError"
            /\ mode' = "raised"
            /\ UNCHANGED <<projects, effects>>
       ELSE LET res == projects_of({}, collectors, 1)
            IN /\ effects' = effects \cup {Effect("makedirs", "processed")}
               /\ projects' = res.projects
               /\ raised' = res.raised
               /\ mode' = IF res.raised = "" THEN "configured" ELSE "raised"
    /\ UNCHANGED <<collectors, interval, parses, ts_end, files, compare, output_files,
                   timestamps, calls, aside, peer_asns, date_range, closest_rib, ground,
                   peer_ip_filter, data, stop_updating, observers, todo, build_result, rec,
                   notes, n_lines, n_calls, histvars>>

\* set_urls: ts_start and ts_end are moved, then the registry is filled
\* collector by collector
SetUrls ==
    /\ mode = "configured"
    /\ \E start \in {ClosestRib(date_range, projects)}, end \in {ClosestUpdate(ts_end)} :
       \E reg \in {register(Registry(EmptyMap, compare, ""), collectors, 1, start, end,
                            projects)} :
          /\ closest_rib' = <<start>>
          /\ ts_end' = end
          /\ files' = reg.files
          /\ compare' = reg.compare
          /\ raised' = reg.raised
          /\ mode' = IF reg.raised = "" THEN "urls" ELSE "raised"
    /\ UNCHANGED <<collectors, interval, parses, effects, output_files, timestamps, calls,
                   aside, peer_asns, projects, date_range, ground, peer_ip_filter, data,
                   stop_updating, observers, todo, build_result, rec, notes, n_lines,
                   n_calls, histvars>>

NextUrls ==
    \/ Construct
    \/ SetUrls

SpecUrls == InitUrls /\ [][NextUrls]_vars

(***************************************************************************)
(* BGPDownloader.run: __init__ and set_urls as above, download_urls, then  *)
(* warm_update_process up to the end of the replay loop.  A file is read   *)
(* in one step.  The records of a file carry their timestamp on the scale  *)
(* of TsStart and TsEnd, which stand for the ts_start and ts_end the       *)
(* driver hands to RIBTable; the file of an update timestamp holds records *)
(* of its own span of time only, oldest first.                             *)
(***************************************************************************)
\* lines in one file
MaxFileLines == 2

\* the files of at most MaxFileLines lines drawn from lines
FilesOf(lines) == UNION { [1..k -> lines] : k \in 0..MaxFileLines }

RunRibLines ==
    { Line("rib", 0, "B", 15, "1.2.3.4", 100, "10.0.0.0/24", <<"100", "200">>),
      Line("rib", 0, "B", 15, "1.2.3.4", 100, "10.0.0.0/24", <<"100", "100", "200", "300">>) }

\* a record older than ts_start, a record of the window (at its far end,
\* ts_end + 1 s), a record later than ts_end + 1 s
RunEarlyLines ==
    { Line("update", TsStart - 1, "W", 6, "1.2.3.4", 100, "10.0.0.0/24", <<>>) }
RunWindowLines ==
    { Line("update", TsEnd + TicksPerSecond, "W", 6, "1.2.3.4", 100, "10.0.0.0/24", <<>>) }
RunLateLines ==
    { Line("update", TsEnd + TicksPerSecond + 1, "A", 15, "1.2.3.4", 100, "10.0.0.0/24",
           <<"100", "200">>) }

\* what the update file stamped ts may hold when the window is [start, end]
UpdateFilesAt(ts, start, end) ==
    IF ts < start THEN FilesOf(RunEarlyLines)
    ELSE IF ts < end THEN FilesOf(RunWindowLines)
    ELSE IF ts = end
    THEN { w \o l : w \in FilesOf(RunWindowLines), l \in FilesOf(RunLateLines) }
             \cap FilesOf(RunWindowLines \cup RunLateLines)
    ELSE FilesOf(RunLateLines)

\* the observers attached to rib_table, as one value
ObserversOf(g, m, u, p) == [graph |-> g, multigraph |-> m, update_count |-> u, path |-> p]

\* the _notify_* calls of a whole file, in order
RECURSIVE notify_all(_, _)
notify_all(obs, evs) ==
    IF evs = <<>> THEN obs
    ELSE notify_all(ObserversOf(BaseGraph_notify("graph", obs.graph, evs[1]),
                                BaseGraph_notify("multigraph", obs.multigraph, evs[1]),
                                UpdateCount_notify(obs.update_count, evs[1]),
                                Path_notify(obs.path, evs[1])),
                    Tail(evs))

\* _build_rib_from_url, the loop "for line in p.stdout" over a whole dump
RECURSIVE build_rib_from_url(_, _, _, _)
build_rib_from_url(rib, rc, lines, filter) ==
    IF lines = <<>> THEN [rib |-> rib, evs |-> <<>>]
    ELSE LET res == build_line(rib, rc, lines[1], filter)
             rest == build_rib_from_url(res.rib, rc, Tail(lines), filter)
         IN [rib |-> rest.rib, evs |-> res.evs \o rest.evs]

\* _update_rib_from_url, the loop "for update in p.stdout" over a whole
\* file: ret says that the loop was left by the return of line 291, and so
\* that os.remove(tmp_path) of line 373 was not reached
RECURSIVE update_rib_from_url(_, _, _, _)
update_rib_from_url(rib, rc, lines, filter) ==
    IF lines = <<>> THEN [rib |-> rib, evs |-> <<>>, stop |-> FALSE, ret |-> FALSE]
    ELSE LET res == update_line(rib, rc, lines[1], filter)
         IN IF res.ret THEN res
            ELSE LET rest == update_rib_from_url(res.rib, rc, Tail(lines), filter)
                 IN [rib |-> rest.rib, evs |-> res.evs \o rest.evs,
                     stop |-> res.stop \/ rest.stop, ret |-> rest.ret]

\* the state RIBTable.build and RIBTable.update work on
TableOf(d, stop, obs, io) == [data |-> d, stop_updating |-> stop, observers |-> obs,
                              effects |-> io]

\* RIBTable.build, lines 173-174, from collector i of rc_to_url on: the
\* temporary file is created, filled from the session, read and removed
RECURSIVE build(_, _, _, _, _, _)
build(table, rcs, i, urls, contents, filter) ==
    IF i > Len(rcs) THEN table
    ELSE LET rc == rcs[i]
             res == build_rib_from_url(EmptyMap, rc, contents[rc], filter)
         IN build(TableOf(Put(table.data, rc, res.rib), table.stop_updating,
                          notify_all(table.observers, res.evs),
                          table.effects \cup { Effect("tempfile", urls[rc]),
                                               Effect("get", urls[rc]),
                                               Effect("remove", urls[rc]) }),
                  rcs, i + 1, urls, contents, filter)

\* RIBTable.update, lines 254-255, from collector i of rc_to_url on
RECURSIVE update(_, _, _, _, _, _)
update(table, rcs, i, urls, contents, filter) ==
    IF i > Len(rcs) THEN table
    ELSE LET rc == rcs[i]
             res == update_rib_from_url(table.data[rc], rc, contents[rc], filter)
         IN update(TableOf([table.data EXCEPT ![rc] = res.rib],
                           IF res.stop THEN [table.stop_updating EXCEPT ![rc] = TRUE]
                           ELSE table.stop_updating,
                           notify_all(table.observers, res.evs),
                           table.effects \cup { Effect("tempfile", urls[rc]),
                                                Effect("get", urls[rc]) }
                               \cup (IF res.ret THEN {} ELSE { Effect("remove", urls[rc]) })),
                  rcs, i + 1, urls, contents, filter)

all_stopped_never(stop) == FALSE

\* all(rib_table.stop_updating.values()), line 331
all_stopped(stop) == \A rc \in DOMAIN stop : stop[rc]

\* a call the driver makes on rib_table
Call(op, ts) == [op |-> op, ts |-> ts]

\* RIBTable.dump: the files the observers open for writing (the multigraph
\* observer writes none)
dump(ts) ==
    { Effect("write", <<"graph_ipv4", ts>>), Effect("write", <<"graph_ipv6", ts>>),
      Effect("write", <<"update_count", ts>>), Effect("write", <<"path", ts>>) }

Trunc_up(x, y) == (x \div y) + 1

\* int(x / y)
Trunc(x, y) == IF x >= 0 THEN x \div y ELSE -((-x) \div y)

\* a set of instants as the sorted list sort_index() leaves
SortedList(S) ==
    [i \in 1..Cardinality(S) |->
        CHOOSE x \in S : Cardinality({ y \in S : y < x }) = i - 1]

\* the collector names in the order of the sorted index
RcOrder == <<"bgpmon", "route-views2", "rrc00", "sg.route-views">>

\* collectors_for_timestamp, lines 313-314
collectors_for_timestamp(fs, ts) ==
    SelectSeq(RcOrder, LAMBDA rc : <<ts, rc, "update">> \in DOMAIN fs)

\* the configurations of the runs followed to the end of the replay loop
RunCollectorLists ==
    { <<"rrc00">>, <<"route-views2">>, <<"rrc00", "route-views2">>, <<"sg.route-views">> }
RunStart == 8 * MinutesPerHour
RunEnds == { RunStart, RunStart + RV_UPDATE_RES }
\* the dump intervals, in minutes: 600 s and 900 s
RunIntervals == {10, 15}

InitRun ==
    /\ peer_ip_filter = {}
    /\ data = EmptyMap
    /\ stop_updating = EmptyMap
    /\ as_graph_observer = EmptyGraphObserver
    /\ as_multigraph_observer = EmptyGraphObserver
    /\ update_count_observer = EmptyUpdateCount
    /\ path_observer = EmptyPathObserver
    /\ mode = "args"
    /\ todo = <<>>
    /\ build_result = EmptyMap
    /\ rec = NoLine
    /\ notes = <<>>
    /\ n_lines = 0 /\ n_calls = 0
    /\ hist = [k \in Keys |-> NoHist]
    /\ late_seen = FALSE
    /\ snap = NoSnap
    /\ trip = "none"
    /\ peer_asns = {}
    /\ projects = {}
    /\ closest_rib = <<>>
    /\ InitGround
    /\ collectors \in RunCollectorLists
    /\ interval \in RunIntervals
    /\ parses = TRUE
    /\ date_range = RunStart
    /\ ts_end \in RunEnds
    /\ files = EmptyMap
    /\ compare = FALSE
    /\ raised = ""
    /\ effects = {}
    /\ output_files = <<>>
    /\ timestamps = <<>>
    /\ calls = <<>>
    /\ InitAside

\* download_urls: every url of the registry is fetched; a response whose
\* status is not 200 raises RuntimeError
DownloadUrls ==
    /\ mode = "urls"
    /\ effects' = effects \cup { Effect("get", files[k]) : k \in DOMAIN files }
    /\ \E ok \in BOOLEAN :
          /\ ok \/ DOMAIN files # {}
          /\ raised' = IF ok THEN raised ELSE "RuntimeError"
          /\ mode' = IF ok THEN "downloaded" ELSE "raised"
    /\ UNCHANGED <<aside, collectors, interval, parses, ts_end, files, compare,
                   output_files, timestamps, calls, downloader, ground, peer_ip_filter,
                   data, stop_updating, observers, todo, build_result, rec, notes, n_lines,
                   n_calls, histvars>>

\* warm_update_process, lines 260 to 296: the snapshot instants, the
\* directory of the observers, the urls of the start RIBs
WarmStart ==
    /\ mode = "downloaded"
    /\ output_files' =
          [i \in 1..Trunc(ts_end - closest_rib[1], interval) |->
              closest_rib[1] + i * interval]
    /\ effects' = effects \cup {Effect("makedirs", "processed/output_filename")}
    /\ IF \A i \in 1..Len(collectors) :
              <<closest_rib[1], collectors[i], "rib">> \in DOMAIN files
       THEN mode' = "warm" /\ raised' = raised
       ELSE mode' = "raised" /\ raised' = "KeyError"
    /\ UNCHANGED <<aside, collectors, interval, parses, ts_end, files, compare,
                   timestamps, calls, downloader, ground, peer_ip_filter, data,
                   stop_updating, observers, todo, build_result, rec, notes, n_lines,
                   n_calls, histvars>>

\* line 299: rib_table.build(rc_to_url) on the start RIB of every collector
RunBuild ==
    /\ mode = "warm"
    /\ \E contents \in [SeqRange(collectors) -> FilesOf(RunRibLines)] :
          \E table \in
                {build(TableOf(EmptyMap, stop_updating,
                               ObserversOf(as_graph_observer, as_multigraph_observer,
                                           update_count_observer, path_observer),
                               effects),
                       collectors, 1,
                       [rc \in SeqRange(collectors) |-> files[<<closest_rib[1], rc, "rib">>]],
                       contents, peer_ip_filter)} :
             /\ data' = table.data
             /\ stop_updating' = [rc \in SeqRange(collectors) |-> FALSE]
             /\ as_graph_observer' = table.observers.graph
             /\ as_multigraph_observer' = table.observers.multigraph
             /\ update_count_observer' = table.observers.update_count
             /\ path_observer' = table.observers.path
             /\ effects' = table.effects
    /\ calls' = Append(calls, Call("build", closest_rib[1]))
    /\ mode' = "built"
    /\ UNCHANGED <<aside, collectors, interval, parses, ts_end, files, compare,
                   raised, output_files, timestamps, downloader, ground, peer_ip_filter,
                   todo, build_result, rec, notes, n_lines, n_calls, histvars>>

\* lines 301 to 306: the observers are dumped at ts_start, and the
\* timestamps of the update files are listed
RunDump ==
    /\ mode = "built"
    /\ calls' = Append(calls, Call("dump", closest_rib[1]))
    /\ effects' = effects \cup dump(closest_rib[1])
    /\ timestamps' = SortedList({ k[1] : k \in { f \in DOMAIN files : f[3] = "update" } })
    /\ mode' = IF timestamps' = <<>> THEN "replayed" ELSE "replay"
    /\ UNCHANGED <<aside, collectors, interval, parses, ts_end, files, compare,
                   raised, output_files, downloader, ground, peer_ip_filter, data,
                   stop_updating, observers, todo, build_result, rec, notes, n_lines,
                   n_calls, histvars>>

\* one iteration of "for ts in ris_timestamps", lines 309 to 332: update()
\* on the files of the timestamp, the dump when ts is a snapshot instant,
\* the break when every collector has stopped
Replay ==
    /\ mode = "replay"
    /\ LET ts == Head(timestamps)
           rcs == collectors_for_timestamp(files, ts)
       IN \E contents \in [SeqRange(rcs) -> UpdateFilesAt(ts, closest_rib[1], ts_end)] :
             \E table \in
                   {update(TableOf(data, stop_updating,
                                   ObserversOf(as_graph_observer, as_multigraph_observer,
                                               update_count_observer, path_observer),
                                   effects),
                           rcs, 1, [rc \in SeqRange(rcs) |-> files[<<ts, rc, "update">>]],
                           contents, peer_ip_filter)},
                dumped \in {ts \in SeqRange(output_files)} :
                /\ data' = table.data
                /\ stop_updating' = table.stop_updating
                /\ as_graph_observer' = table.observers.graph
                /\ as_multigraph_observer' = table.observers.multigraph
                /\ update_count_observer' = table.observers.update_count
                /\ path_observer' = table.observers.path
                /\ effects' = IF dumped THEN table.effects \cup dump(ts) ELSE table.effects
                /\ calls' = IF dumped
                            THEN calls \o <<Call("update", ts), Call("dump", ts)>>
                            ELSE Append(calls, Call("update", ts))
                /\ timestamps' = Tail(timestamps)
                /\ mode' = IF all_stopped(table.stop_updating) \/ Tail(timestamps) = <<>>
                           THEN "replayed" ELSE "replay"
    /\ UNCHANGED <<aside, collectors, interval, parses, ts_end, files, compare,
                   raised, output_files, downloader, ground, peer_ip_filter, todo,
                   build_result, rec, notes, n_lines, n_calls, histvars>>

\* lines 334 to 341: the return when the compare flag is not set, else the
\* urls of the ground-truth RIBs
EndLookup ==
    /\ mode = "replayed"
    /\ IF ~compare THEN mode' = "returned" /\ raised' = raised
       ELSE IF \A i \in 1..Len(collectors) : <<ts_end, collectors[i], "rib">> \in DOMAIN files
       THEN mode' = "checking" /\ raised' = raised
       ELSE mode' = "raised" /\ raised' = "KeyError"
    /\ UNCHANGED <<aside, collectors, interval, parses, ts_end, files, compare, effects,
                   output_files, timestamps, calls, downloader, ground, peer_ip_filter,
                   data, stop_updating, observers, todo, build_result, rec, notes, n_lines,
                   n_calls, histvars>>

NextRun ==
    \/ Construct
    \/ SetUrls
    \/ DownloadUrls
    \/ WarmStart
    \/ RunBuild
    \/ RunDump
    \/ Replay
    \/ EndLookup

SpecRun == InitRun /\ [][NextRun]_vars

\* the run goes on as long as it has a step to take
SpecRunFair == SpecRun /\ WF_vars(NextRun)

(***************************************************************************)
(* ASGraphObserver.dump, graph.py lines 138 to 193.  multigraph_observer   *)
(* is the attribute the constructor stored: "multigraph" for a collaborator*)
(* passed by the caller, "Optional" for the default value of the keyword   *)
(* (the typing object Optional['ASMultiGraphObserver'], line 104), "None"  *)
(* for an explicit None.  A file is its header and its set of rows; the    *)
(* quotient paths_count / peers_count is kept as its two terms.            *)
(***************************************************************************)
Collaborators == {"multigraph", "Optional", "None"}

EdgeList(header, rows) == [header |-> header, rows |-> rows]

Quotient(num, den) == [num |-> num, den |-> den]

\* print(u, v, d['paths_count'], sep=",")
RawRow(e, paths_count) == [edge |-> e, paths_count |-> paths_count]

\* print(u, v, d['paths_count']/peers_count, peers_count, sep=",")
PeersRow(e, paths_count, peers_count) ==
    [edge |-> e, paths_count |-> Quotient(paths_count, peers_count),
     peers_count |-> peers_count]

\* len(self.multigraph_observer.graph[u][v]); 0 stands for the KeyError
peers_count_of(multigraph, e) ==
    Cardinality({ k \in DOMAIN multigraph.edges : k[1] = e })

\* the loop of lines 171 to 180 (and 182 to 191) over the edges of a graph
PeersRows(as_graph, multigraph) ==
    { PeersRow(e, as_graph.edges[e], peers_count_of(multigraph, e)) :
        e \in { x \in DOMAIN as_graph.edges : peers_count_of(multigraph, x) > 0 } }

DumpOutcome(err, ipv4, ipv6) == [raised |-> err, ipv4 |-> ipv4, ipv6 |-> ipv6]

ASGraph_dump(self, collaborator, multigraph) ==
    IF collaborator = "None"
    THEN \* lines 155 to 158 write the headers; line 160 reads
         \* self.as_graph_ipv4, an attribute the observer does not have
         DumpOutcome("AttributeError",
                     EdgeList("#origin,destination,paths_count", {}),
                     EdgeList("#origin,destination,paths_count", {}))
    ELSE IF collaborator = "Optional"
    THEN \* the default is not None: lines 167 to 170 write the headers,
         \* line 174 (or 185) reads graph_ipv4 of the typing object on the
         \* first edge
         DumpOutcome(IF DOMAIN self.graph_ipv4.edges \cup DOMAIN self.graph_ipv6.edges = {}
                     THEN "" ELSE "AttributeError",
                     EdgeList("#origin,destination,paths_count,peers_count", {}),
                     EdgeList("#origin,destination,paths_count,peers_count", {}))
    ELSE DumpOutcome("",
                     EdgeList("#origin,destination,paths_count,peers_count",
                              PeersRows(self.graph_ipv4, multigraph.graph_ipv4)),
                     EdgeList("#origin,destination,paths_count,peers_count",
                              PeersRows(self.graph_ipv6, multigraph.graph_ipv6)))

\* an observer of either kind of construction receives the calls the table
\* makes, then is dumped
InitDump ==
    /\ peer_ip_filter = {}
    /\ data = EmptyMap
    /\ stop_updating = EmptyMap
    /\ as_graph_observer = EmptyGraphObserver
    /\ as_multigraph_observer = EmptyGraphObserver
    /\ update_count_observer = EmptyUpdateCount
    /\ path_observer = EmptyPathObserver
    /\ mode = "calls"
    /\ todo = <<>>
    /\ build_result = EmptyMap
    /\ rec = NoLine
    /\ notes = <<>>
    /\ n_lines = 0 /\ n_calls = 0
    /\ hist = [k \in Keys |-> NoHist]
    /\ late_seen = FALSE
    /\ snap = NoSnap
    /\ trip = "none"
    /\ InitDownloader
    /\ InitGround
    /\ InitDriver
    /\ multigraph_observer \in Collaborators
    /\ written = <<>>
    /\ arg = <<>>
    /\ result = <<>>
    /\ attached = ObserverNames
    /\ compare = FALSE

\* dump(ts) of the graph observer
GraphDump ==
    /\ mode = "calls"
    /\ \E out \in {ASGraph_dump(as_graph_observer, multigraph_observer,
                                 as_multigraph_observer)} :
          /\ written' = <<out.ipv4, out.ipv6>>
          /\ raised' = out.raised
    /\ mode' = "dumped"
    /\ UNCHANGED <<multigraph_observer, arg, result, attached, collectors, interval, parses,
                   ts_end, files, compare, effects, output_files, timestamps, calls,
                   downloader, ground, peer_ip_filter, data, stop_updating, observers,
                   todo, build_result, rec, notes, n_lines, n_calls, histvars>>

NextDump ==
    \/ \E ev \in ObsEvents : ObsCall(ev)
    \/ GraphDump

SpecDump == InitDump /\ [][NextDump]_vars

(***************************************************************************)
(* The functions of the modules taken alone: arg is the tuple of the       *)
(* arguments of the call, result the value returned.                       *)
(***************************************************************************)
\* the state of everything a function call does not touch
InitIdle ==
    /\ peer_ip_filter = {}
    /\ data = EmptyMap
    /\ stop_updating = EmptyMap
    /\ as_graph_observer = EmptyGraphObserver
    /\ as_multigraph_observer = EmptyGraphObserver
    /\ update_count_observer = EmptyUpdateCount
    /\ path_observer = EmptyPathObserver
    /\ todo = <<>>
    /\ build_result = EmptyMap
    /\ rec = NoLine
    /\ notes = <<>>
    /\ n_lines = 0 /\ n_calls = 0
    /\ hist = [k \in Keys |-> NoHist]
    /\ late_seen = FALSE
    /\ snap = NoSnap
    /\ trip = "none"
    /\ InitDownloader
    /\ InitGround
    /\ InitDriver
    /\ multigraph_observer = "multigraph"
    /\ written = <<>>
    /\ attached = ObserverNames
    /\ compare = FALSE

idle == <<multigraph_observer, written, attached, driver, downloader, ground, peer_ip_filter, data,
          stop_updating, observers, todo, build_result, rec, notes, n_lines, n_calls,
          histvars>>

\* the longest as_path field handed to the sanitizer
MaxTokens == 3

\* the tokens of an as_path field: integers as the decoder prints them, an
\* AS set, and two texts int() reads as well
Tokens == {"100", "200", "{200,201}", "0100", "-5"}

TokenLists == UNION { [1..n -> Tokens] : n \in 1..MaxTokens }

PeerAsns == {100, 200}

\* rib_table.py lines 221 to 239: the path stored for a line, or its
\* rejection (n_invalid += 1) on an invalid path or a ValueError
sanitize(toks, peer_asn) ==
    LET p == IntPath(toks)
    IN IF p.ok /\ is_valid_path(p.path, peer_asn)
       THEN [accepted |-> TRUE, path |-> p.path]
       ELSE [accepted |-> FALSE, path |-> NoPath]

InitSanitize ==
    /\ InitIdle
    /\ mode = "tokens"
    /\ arg \in TokenLists \X PeerAsns
    /\ result = <<>>

Sanitize ==
    /\ mode = "tokens"
    /\ result' = sanitize(arg[1], arg[2])
    /\ mode' = "sanitized"
    /\ UNCHANGED <<arg, idle>>

NextSanitize == Sanitize

SpecSanitize == InitSanitize /\ [][NextSanitize]_vars

\* the number of add_path calls a compared graph was built by
MaxGraphPaths == 2

GraphPaths == { <<100, 200>>, <<200, 100>>, <<300, 200>> }

RECURSIVE GraphBuiltBy(_, _)
\* the graph the observer holds after add_path on each path of the list
GraphBuiltBy(paths, l) ==
    IF l = 0 THEN EmptyGraph ELSE ASGraph_add_path(GraphBuiltBy(paths, l - 1), paths[l])

Graphs == { GraphBuiltBy(paths, Len(paths)) :
              paths \in UNION { [1..n -> GraphPaths] : n \in 0..MaxGraphPaths } }

InitGraphCompare ==
    /\ InitIdle
    /\ mode = "graphs"
    /\ arg \in Graphs \X Graphs
    /\ result = <<>>

GraphCompare ==
    /\ mode = "graphs"
    /\ result' = compare_weighted_graphs(arg[1], arg[2])
    /\ mode' = "graphs_compared"
    /\ UNCHANGED <<arg, idle>>

NextGraphCompare == GraphCompare

SpecGraphCompare == InitGraphCompare /\ [][NextGraphCompare]_vars

\* the prefixes and paths of the maps handed to dict_diff
DiffPrefixes == Prefixes \cup {"10.0.1.0/24"}

DiffPaths == { <<100, 200>>, <<100, 200, 300>> }

\* the prefix-to-path maps of one peer
PfxToPath == UNION { [S -> DiffPaths] : S \in SUBSET DiffPrefixes }

InitDictDiff ==
    /\ InitIdle
    /\ mode = "dicts"
    /\ arg \in PfxToPath \X PfxToPath
    /\ result = <<>>

\* dict_diff(self.data[rc][peer_ip], other.data[rc][peer_ip])
DictDiff ==
    /\ mode = "dicts"
    /\ result' = dict_diff(arg[1], arg[2])
    /\ mode' = "diffed"
    /\ UNCHANGED <<arg, idle>>

NextDictDiff == DictDiff

SpecDictDiff == InitDictDiff /\ [][NextDictDiff]_vars

(***************************************************************************)
(* attach_observer, detach_observer and the _notify_* methods of RIBTable, *)
(* rib_table.py lines 103 to 137, on a table whose observers are attached  *)
(* and detached between the records it processes.                          *)
(***************************************************************************)
\* the longest list of observers of the table
MaxAttached == 2

\* the notifications of the records the table processes
AttachEvents ==
    { Event("add_path", "ipv4", "rrc00", "1.2.3.4", "10.0.0.0/24", <<100, 200>>, NoPath),
      Event("update_withdrawal", "ipv4", "rrc00", "1.2.3.4", "10.0.0.0/24", <<100, 200>>,
            NoPath) }

\* observer.<method>(...) on the observer of that name
notify_one(obs, name, ev) ==
    CASE name = "graph" -> [obs EXCEPT !.graph = BaseGraph_notify("graph", @, ev)]
      [] name = "multigraph" ->
            [obs EXCEPT !.multigraph = BaseGraph_notify("multigraph", @, ev)]
      [] name = "update_count" ->
            [obs EXCEPT !.update_count = UpdateCount_notify(@, ev)]
      [] name = "path" -> [obs EXCEPT !.path = Path_notify(@, ev)]

\* "for observer in self._observers: observer.<method>(...)"
RECURSIVE notify_observers(_, _, _)
notify_observers(obs, names, ev) ==
    IF names = <<>> THEN obs
    ELSE notify_observers(notify_one(obs, names[1], ev), Tail(names), ev)

\* list.remove(x): the first occurrence of x is taken out
remove(xs, x) ==
    LET i == CHOOSE k \in 1..Len(xs) : xs[k] = x /\ \A j \in 1..(k - 1) : xs[j] # x
    IN SubSeq(xs, 1, i - 1) \o SubSeq(xs, i + 1, Len(xs))

\* a table just constructed: self._observers = []
InitAttach ==
    /\ peer_ip_filter = {}
    /\ data = EmptyMap
    /\ stop_updating = EmptyMap
    /\ as_graph_observer = EmptyGraphObserver
    /\ as_multigraph_observer = EmptyGraphObserver
    /\ update_count_observer = EmptyUpdateCount
    /\ path_observer = EmptyPathObserver
    /\ mode = "table"
    /\ todo = <<>>
    /\ build_result = EmptyMap
    /\ rec = NoLine
    /\ notes = <<>>
    /\ n_lines = 0 /\ n_calls = 0
    /\ hist = [k \in Keys |-> NoHist]
    /\ late_seen = FALSE
    /\ snap = NoSnap
    /\ trip = "none"
    /\ InitDownloader
    /\ InitGround
    /\ InitDriver
    /\ multigraph_observer = "multigraph"
    /\ written = <<>>
    /\ arg = <<>>
    /\ result = <<>>
    /\ attached = <<>>
    /\ compare = FALSE

\* what no method of the table touches in this specification
unattached == <<multigraph_observer, written, arg, result, collectors, interval, parses,
                ts_end, files, compare, effects, output_files, timestamps, calls,
                downloader, ground, peer_ip_filter, data, stop_updating, todo,
                build_result, rec, n_lines, histvars>>

AttachObserver(name) ==
    /\ mode = "table"
    /\ Len(attached) < MaxAttached
    /\ attached' = Append(attached, name)
    /\ UNCHANGED <<mode, raised, observers, notes, n_calls, unattached>>

\* self._observers.remove(observer) raises ValueError when the observer is
\* not in the list
DetachObserver(name) ==
    /\ mode = "table"
    /\ IF name \in SeqRange(attached)
       THEN /\ attached' = remove(attached, name)
            /\ UNCHANGED <<mode, raised>>
       ELSE /\ mode' = "raised"
            /\ raised' = "ValueError"
            /\ UNCHANGED attached
    /\ UNCHANGED <<observers, notes, n_calls, unattached>>

\* one _notify_* call, made for a record the table processes
NotifyObservers(ev) ==
    /\ mode = "table"
    /\ n_calls < MaxCalls
    /\ \E obs \in {notify_observers(ObserversOf(as_graph_observer, as_multigraph_observer,
                                                  update_count_observer, path_observer),
                                      attached, ev)} :
          /\ as_graph_observer' = obs.graph
          /\ as_multigraph_observer' = obs.multigraph
          /\ update_count_observer' = obs.update_count
          /\ path_observer' = obs.path
    /\ notes' = [i \in 1..Len(attached) |-> [observer |-> attached[i], ev |-> ev]]
    /\ n_calls' = n_calls + 1
    /\ UNCHANGED <<mode, raised, attached, unattached>>

NextAttach ==
    \/ \E name \in SeqRange(ObserverNames) : AttachObserver(name)
    \/ \E name \in SeqRange(ObserverNames) : DetachObserver(name)
    \/ \E ev \in AttachEvents : NotifyObservers(ev)

SpecAttach == InitAttach /\ [][NextAttach]_vars

(***************************************************************************)
(* RIBTable.build called again on a table in use: any sequence of build()  *)
(* and update() calls on one table, each call taken in one step.  arg is   *)
(* the list of the calls made so far, each with its rc_to_url (the         *)
(* collectors, in order) and the lines its files decoded to.               *)
(***************************************************************************)
\* build() and update() calls made on the table
MaxStoreCalls == 3

\* the rc_to_url maps build() is called with
StoreMaps == { <<"rrc00">>, <<"rrc01">>, <<"rrc00", "rrc01">> }

StoreDumps ==
    { <<>>,
      <<Line("rib", 0, "B", 15, "1.2.3.4", 100, "10.0.0.0/24", <<"100", "200">>)>>,
      <<Line("rib", 0, "B", 15, "1.2.3.4", 100, "10.0.0.0/24", <<"100", "200">>),
        Line("rib", 0, "B", 15, "5.6.7.8", 100, "2001:db8::/32", <<"100", "100", "300">>)>> }

StoreUpdates ==
    { <<Line("update", TsStart, "W", 6, "1.2.3.4", 100, "10.0.0.0/24", <<>>)>>,
      <<Line("update", TsEnd + TicksPerSecond + 1, "A", 15, "1.2.3.4", 100, "10.0.0.0/24",
             <<"100", "200">>)>> }

StoreCall(op, rcs, contents) == [op |-> op, rcs |-> rcs, contents |-> contents]

\* the flags line 176 leaves, without the reset
reset_flags_kept(rcs) ==
    [rc \in SeqRange(rcs) |-> IF rc \in DOMAIN stop_updating THEN stop_updating[rc] ELSE FALSE]

\* line 176: self.stop_updating = {rc: False for rc in rc_to_url}
reset_flags(rcs) == [rc \in SeqRange(rcs) |-> FALSE]

InitStore ==
    /\ InitIdle
    /\ mode = "store"
    /\ arg = <<>>
    /\ result = <<>>

\* what build() and update() leave alone
unbuilt == <<multigraph_observer, written, result, attached, collectors, interval, parses,
             ts_end, files, compare, raised, output_files, timestamps, calls,
             downloader, ground, peer_ip_filter, todo, build_result, rec, notes,
             n_lines, n_calls, histvars>>

\* build(rc_to_url), lines 171 to 176
StoreBuild ==
    /\ mode = "store"
    /\ Len(arg) < MaxStoreCalls
    /\ \E rcs \in StoreMaps :
       \E contents \in [SeqRange(rcs) -> StoreDumps] :
       \E table \in
             {build(TableOf(EmptyMap, stop_updating,
                            ObserversOf(as_graph_observer, as_multigraph_observer,
                                        update_count_observer, path_observer),
                            effects),
                    rcs, 1, [rc \in SeqRange(rcs) |-> rc], contents, peer_ip_filter)} :
          /\ data' = table.data
          /\ stop_updating' = reset_flags(rcs)
          /\ as_graph_observer' = table.observers.graph
          /\ as_multigraph_observer' = table.observers.multigraph
          /\ update_count_observer' = table.observers.update_count
          /\ path_observer' = table.observers.path
          /\ effects' = table.effects
          /\ arg' = Append(arg, StoreCall("build", rcs, contents))
    /\ UNCHANGED <<mode, unbuilt>>

\* update(rc_to_url), lines 252 to 255, with a file for every collector of
\* the table
StoreUpdate ==
    /\ mode = "store"
    /\ Len(arg) < MaxStoreCalls
    /\ LET rcs == SelectSeq(Collectors, LAMBDA rc : rc \in DOMAIN data)
       IN /\ rcs # <<>>
          /\ \E contents \in [SeqRange(rcs) -> StoreUpdates] :
             \E table \in
                   {update(TableOf(data, stop_updating,
                                   ObserversOf(as_graph_observer, as_multigraph_observer,
                                               update_count_observer, path_observer),
                                   effects),
                           rcs, 1, [rc \in SeqRange(rcs) |-> rc], contents,
                           peer_ip_filter)} :
                /\ data' = table.data
                /\ stop_updating' = table.stop_updating
                /\ as_graph_observer' = table.observers.graph
                /\ as_multigraph_observer' = table.observers.multigraph
                /\ update_count_observer' = table.observers.update_count
                /\ path_observer' = table.observers.path
                /\ effects' = table.effects
                /\ arg' = Append(arg, StoreCall("update", rcs, contents))
    /\ UNCHANGED <<mode, unbuilt>>

NextStore == StoreBuild \/ StoreUpdate

SpecStore == InitStore /\ [][NextStore]_vars

(***************************************************************************)
(* Properties.  Those about the RIB are read once build() has returned.    *)
(***************************************************************************)
Built == mode \in {"idle", "update", "done"}

\* the keys <<rc, peer_ip, pfx>> that hold an entry in the RIB d
StoredIn(d) ==
    { k \in Keys : /\ k[1] \in DOMAIN d
                   /\ k[2] \in DOMAIN d[k[1]]
                   /\ k[3] \in DOMAIN d[k[1]][k[2]] }

PathIn(d, k) == d[k[1]][k[2]][k[3]]

\* the step read a line of an update file
ReadsUpdateLine == n_lines' = n_lines + 1 /\ rec'.kind = "update"

\* the step left the RIB and every observer as they were and notified nobody
NoEffect == data' = data /\ observers' = observers /\ notes' = <<>>

\* C1: after build() and any sequence of update() calls every stored AS-path
\* has length >= 2, no two adjacent ASNs equal, and starts with the peer ASN
\* of the record that installed it.
C1_Canonicality ==
    Built =>
        \A k \in StoredIn(data) :
            LET path == PathIn(data, k)
            IN /\ Len(path) >= 2
               /\ \A i \in 1..(Len(path) - 1) : path[i] # path[i + 1]
               /\ path[1] = hist[k].asn

\* a path announced with prepending is stored, collapsed
C1_Witness ==
    /\ mode = "idle"
    /\ \E k \in StoredIn(data) : PathIn(data, k) = <<100, 200, 300>>

\* C2: an update line stamped before ts_start or after ts_end + 1 s changes
\* neither the RIB nor any observer and notifies nobody; a line that has an
\* effect is stamped within [ts_start, ts_end + 1 s] and no too-late line
\* came before it in its file.
C2_Windowing ==
    [][ReadsUpdateLine =>
          /\ (rec'.ts < TsStart \/ rec'.ts > TsEnd + TicksPerSecond) => NoEffect
          /\ ~NoEffect =>
                /\ TsStart <= rec'.ts
                /\ rec'.ts <= TsEnd + TicksPerSecond
                /\ ~late_seen]_vars

\* a line stamped exactly ts_end + 1 s is applied
C2_Witness ==
    /\ rec.kind = "update"
    /\ rec.ts = TsEnd + TicksPerSecond
    /\ notes # <<>>

\* C3: once stop_updating[rc] is true, no line of a file of rc changes the
\* RIB or an observer, in that file or in a later update() call.
C3_Termination ==
    [][(mode = "update" /\ stop_updating[Head(todo)] /\ n_lines' = n_lines + 1)
          => (data' = data /\ observers' = observers)]_vars

\* C4: the first line stamped after ts_end + 1 s sets stop_updating[rc] and
\* ends the reading of the file at once, whatever its type and peer,
\* leaving the RIB and the observers as the earlier lines made them; a flag
\* that is set stays set during the replay.
C4_Latch ==
    [][/\ (ReadsUpdateLine /\ rec'.ts > TsEnd + TicksPerSecond) =>
             /\ stop_updating'[Head(todo)]
             /\ todo' = Tail(todo)
             /\ data' = data
             /\ observers' = observers
       /\ \A rc \in DOMAIN stop_updating :
             stop_updating[rc] => (rc \in DOMAIN stop_updating' /\ stop_updating'[rc])]_vars

\* a too-late withdrawal from a peer outside the allowlist has set the flag
\* of the first collector, whose file was left for the next one
C4_Witness ==
    /\ rec.kind = "update"
    /\ rec.ts > TsEnd + TicksPerSecond
    /\ rec.type = "W"
    /\ peer_ip_filter # {} /\ rec.peer_ip \notin peer_ip_filter
    /\ stop_updating[Collectors[1]]
    /\ mode = "update" /\ todo = Tail(Collectors)

\* the stored paths of one family that hold u and v as neighbours, in
\* either order
PathsThrough(fam, u, v) ==
    { k \in StoredIn(data) :
        /\ Family(k[3]) = fam
        /\ \E i \in 1..(Len(PathIn(data, k)) - 1) :
              {PathIn(data, k)[i], PathIn(data, k)[i + 1]} = {u, v} }

Asns == {100, 200, 300}

EdgesAgree(as_graph, fam) ==
    \A u \in Asns, v \in Asns :
        LET n == Cardinality(PathsThrough(fam, u, v))
        IN /\ (Edge(u, v) \in DOMAIN as_graph.edges) <=> (n > 0)
           /\ n > 0 => as_graph.edges[Edge(u, v)] = n

\* C5: in each family's graph the paths_count of edge {u, v} is the number
\* of stored paths of that family in which u and v are neighbours, and the
\* edge exists iff that number is positive.
C5_EdgeCounts ==
    Built => /\ EdgesAgree(as_graph_observer.graph_ipv4, "ipv4")
             /\ EdgesAgree(as_graph_observer.graph_ipv6, "ipv6")

MapValues(f) == {f[k] : k \in DOMAIN f}

Positive(f) == \A c \in MapValues(f) : c >= 1

\* C6: whatever calls were made, removals of paths never added included,
\* every edge, parallel edge, path and update counter that is present
\* counts at least 1.
C6_NonNegativity ==
    /\ Positive(as_graph_observer.graph_ipv4.edges)
    /\ Positive(as_graph_observer.graph_ipv6.edges)
    /\ Positive(as_multigraph_observer.graph_ipv4.edges)
    /\ Positive(as_multigraph_observer.graph_ipv6.edges)
    /\ Positive(path_observer.paths_count)
    /\ Positive(update_count_observer.n_updates)
    /\ Positive(update_count_observer.n_withdrawals_ipv4)
    /\ Positive(update_count_observer.n_withdrawals_ipv6)
    /\ Positive(update_count_observer.n_announcements_ipv4)
    /\ Positive(update_count_observer.n_announcements_ipv6)
    /\ \A rc \in DOMAIN update_count_observer.n_updates_per_peer :
          Positive(update_count_observer.n_updates_per_peer[rc])

\* the path 200 100 300, never added, was withdrawn after 100 200 had been
\* added: the shared edge is gone and the missing one was passed over
C6_Witness ==
    /\ mode = "calls"
    /\ n_calls = 2
    /\ notes[1].ev.method = "update_withdrawal"
    /\ notes[1].ev.path = <<200, 100, 300>>
    /\ notes[1].ev.fam = "ipv4"
    /\ path_observer.paths_count = Put(EmptyMap, <<100, 200>>, 1)
    /\ as_graph_observer.graph_ipv4.edges = EmptyMap

\* C7 as stated: add_path(p) then the withdrawal of p leaves the graph
\* observer, node set included, and the path observer as before the add.
C7_RoundTrip_Original ==
    trip = "removed" =>
        /\ as_graph_observer = snap.graph
        /\ path_observer = snap.path

GraphOf(o, fam) == IF fam = "ipv4" THEN o.graph_ipv4 ELSE o.graph_ipv6

OtherFam(fam) == IF fam = "ipv4" THEN "ipv6" ELSE "ipv4"

\* C7 amended: add_path(p) then the withdrawal of p leaves every edge and
\* paths_count of the graph observer and the whole path counter as before
\* the add; the nodes of that family's graph are the former ones and the
\* ASNs of p, which stay as isolated nodes.
C7_RoundTrip ==
    trip = "removed" =>
        LET ev == notes[1].ev
            now == GraphOf(as_graph_observer, ev.fam)
            was == GraphOf(snap.graph, ev.fam)
        IN /\ now.edges = was.edges
           /\ SeqRange(now.nodes) = SeqRange(was.nodes) \cup SeqRange(ev.path)
           /\ GraphOf(as_graph_observer, OtherFam(ev.fam)) = GraphOf(snap.graph, OtherFam(ev.fam))
           /\ path_observer = snap.path

\* a round trip made on a graph that already had edges
C7_Witness ==
    /\ trip = "removed"
    /\ GraphOf(snap.graph, notes[1].ev.fam).edges # EmptyMap
    /\ notes[1].ev.path = <<100, 200, 100>>

\* the observer o of the given kind after a withdrawal of old and an add
\* of new made in the family and for the peer of ev
RemoveThenAdd(kind, o, ev) ==
    LET removed == IF ev.old_path = NoPath THEN o
                   ELSE BaseGraph_notify(kind, o,
                            Event("update_withdrawal", ev.fam, ev.rc, ev.peer_ip,
                                  ev.pfx, ev.old_path, NoPath))
    IN BaseGraph_notify(kind, removed,
           Event("add_path", ev.fam, ev.rc, ev.peer_ip, ev.pfx, ev.path, NoPath))

PathRemoveThenAdd(o, ev) ==
    LET removed == IF ev.old_path = NoPath THEN o
                   ELSE Path_notify(o,
                            Event("update_withdrawal", ev.fam, ev.rc, ev.peer_ip,
                                  ev.pfx, ev.old_path, NoPath))
    IN Path_notify(removed,
           Event("add_path", ev.fam, ev.rc, ev.peer_ip, ev.pfx, ev.path, NoPath))

\* C8: on the graph, multigraph and path observers an update_announcement
\* with old path o and new path n ends in the state that the withdrawal of
\* o followed by add_path(n) ends in, and with no old path in the state
\* add_path(n) ends in.
C8_AnnouncementSymmetry ==
    [][(mode = "calls" /\ n_calls' = n_calls + 1
            /\ notes'[1].ev.method = "update_announcement") =>
          LET ev == notes'[1].ev
          IN /\ as_graph_observer' = RemoveThenAdd("graph", as_graph_observer, ev)
             /\ as_multigraph_observer' =
                    RemoveThenAdd("multigraph", as_multigraph_observer, ev)
             /\ path_observer' = PathRemoveThenAdd(path_observer, ev)]_vars

\* an announcement replaced 100 200 by a path through the same edge
C8_Witness ==
    /\ mode = "calls"
    /\ n_calls = 2
    /\ notes[1].ev.method = "update_announcement"
    /\ notes[1].ev.old_path = <<100, 200>>
    /\ notes[1].ev.path = <<200, 100, 300>>
    /\ path_observer.paths_count = Put(EmptyMap, <<200, 100, 300>>, 1)

\* C9: an entry exists at (rc, peer_ip, pfx) iff the last record applied to
\* that key (a valid RIB line, or a withdrawal or announcement stamped within
\* the window from a tracked, allowed peer) was a valid RIB line or a valid
\* announcement; the stored path is then the canonical path of that record.
C9_EntryIffLastValid ==
    Built =>
        \A k \in Keys :
            /\ (k \in StoredIn(data)) <=> hist[k].valid
            /\ k \in StoredIn(data) => PathIn(data, k) = hist[k].path

\* an announcement with an AS set purged the entry a RIB line had installed
C9_Witness ==
    /\ rec.kind = "update"
    /\ rec.type = "A"
    /\ rec.as_path = <<"100", "{200,201}", "300">>
    /\ notes # <<>>
    /\ StoredIn(data) = {}

\* the calls a withdrawal of path for key k makes: one per observer
WithdrawalNotes(k, path) ==
    [i \in 1..Len(ObserverNames) |->
        [observer |-> ObserverNames[i],
         ev |-> Event("update_withdrawal", Family(k[3]), k[1], k[2], k[3], path, NoPath)]]

\* C10: a W line stamped within the window for a key that holds an entry
\* makes every observer receive one update_withdrawal of the prefix's family
\* with the path stored just before, and the entry is gone; for a key that
\* holds none it changes nothing, notifies nobody and moves no counter.
C10_Withdrawal ==
    [][(ReadsUpdateLine /\ rec'.type = "W" /\ rec'.nfields = 6
            /\ TsStart <= rec'.ts /\ rec'.ts <= TsEnd + TicksPerSecond) =>
          LET k == <<Head(todo), rec'.peer_ip, rec'.pfx>>
          IN IF k \in StoredIn(data)
             THEN /\ notes' = WithdrawalNotes(k, PathIn(data, k))
                  /\ k \notin StoredIn(data')
                  /\ StoredIn(data') = StoredIn(data) \ {k}
             ELSE /\ NoEffect
                  /\ update_count_observer' = update_count_observer]_vars

\* an IPv6 entry was withdrawn
C10_Witness ==
    /\ rec.kind = "update"
    /\ rec.type = "W"
    /\ rec.pfx = "2001:db8::/32"
    /\ notes # <<>>
    /\ notes[1].ev.fam = "ipv6"
    /\ update_count_observer.n_withdrawals_ipv6 # EmptyMap

\* the calls an announcement for key k makes: one per observer
AnnouncementNotes(k, new_path, old_path) ==
    [i \in 1..Len(ObserverNames) |->
        [observer |-> ObserverNames[i],
         ev |-> Event("update_announcement", Family(k[3]), k[1], k[2], k[3],
                      new_path, old_path)]]

\* the step read an announcement stamped within the window from an allowed
\* peer that has a sub-mapping in the RIB of the collector
ReadsTrackedAnnouncement ==
    /\ ReadsUpdateLine
    /\ rec'.type = "A" /\ rec'.nfields = 15
    /\ WithinWindow(rec'.ts)
    /\ Allowed(rec'.peer_ip)
    /\ rec'.peer_ip \in DOMAIN data[Head(todo)]

EdgesOf300 == Put(Put(EmptyMap, {100, 200}, 1), {200, 300}, 1)

EdgesOf400 == Put(Put(EmptyMap, {100, 200}, 1), {200, 400}, 1)

\* C11: a valid announcement from a tracked peer makes every observer
\* receive one update_announcement with the new path and the path stored
\* just before (none without an entry), and the entry becomes the new path;
\* replacing 100 200 300, the only path, by 100 200 400 leaves the IPv4 graph
\* with {100,200} and {200,400} at count 1 and the path counter
\* {(100,200,400): 1}.
C11_ValidAnnouncement ==
    [][(ReadsTrackedAnnouncement /\ Accepted(rec'.as_path, rec'.peer_asn)) =>
          LET k == <<Head(todo), rec'.peer_ip, rec'.pfx>>
              new_path == CanonicalOf(rec'.as_path)
              old_path == IF k \in StoredIn(data) THEN PathIn(data, k) ELSE NoPath
          IN /\ notes' = AnnouncementNotes(k, new_path, old_path)
             /\ StoredIn(data') = StoredIn(data) \cup {k}
             /\ PathIn(data', k) = new_path
             /\ (/\ old_path = <<100, 200, 300>>
                 /\ new_path = <<100, 200, 400>>
                 /\ as_graph_observer.graph_ipv4.edges = EdgesOf300
                 /\ path_observer.paths_count = Put(EmptyMap, <<100, 200, 300>>, 1))
                => /\ as_graph_observer'.graph_ipv4.edges = EdgesOf400
                   /\ path_observer'.paths_count = Put(EmptyMap, <<100, 200, 400>>, 1)]_vars

\* 100 200 300 was replaced by 100 200 400
C11_Witness ==
    /\ rec.kind = "update" /\ rec.type = "A"
    /\ notes # <<>>
    /\ notes[1].ev.old_path = <<100, 200, 300>>
    /\ notes[1].ev.path = <<100, 200, 400>>
    /\ as_graph_observer.graph_ipv4.edges = EdgesOf400
    /\ path_observer.paths_count = Put(EmptyMap, <<100, 200, 400>>, 1)
    /\ Cardinality(StoredIn(data)) = 1

\* the step read the announcement of scenario S2 while no path was counted
\* by the IPv4 graph or the path counter
ReadsS2 ==
    /\ ReadsUpdateLine
    /\ rec' = Line("update", TsStart, "A", 15, "1.2.3.4", 100, "10.0.0.0/24",
                    <<"100", "200", "300">>)
    /\ as_graph_observer.graph_ipv4.edges = EmptyMap
    /\ path_observer.paths_count = EmptyMap

S2Outcome ==
    /\ StoredIn(data') = StoredIn(data) \cup {<<Head(todo), "1.2.3.4", "10.0.0.0/24">>}
    /\ PathIn(data', <<Head(todo), "1.2.3.4", "10.0.0.0/24">>) = <<100, 200, 300>>
    /\ as_graph_observer'.graph_ipv4.edges = EdgesOf300
    /\ path_observer'.paths_count = Put(EmptyMap, <<100, 200, 300>>, 1)

\* C12 as stated: on a collector whose RIB is empty, no entry having been
\* installed by build, the announcement of S2 installs the entry and leaves
\* the IPv4 graph with {100,200} and {200,300} at count 1 and the path
\* counter {(100,200,300): 1}.
C12_S2_Original ==
    [][(ReadsS2 /\ data[Head(todo)] = EmptyMap) => S2Outcome]_vars

\* C12 amended: the announcement of S2 has that outcome when the peer has a
\* sub-mapping that holds no entry (its entries were withdrawn); on a
\* collector where the peer has no sub-mapping it changes nothing.
C12_S2 ==
    [][ReadsS2 =>
          IF "1.2.3.4" \in DOMAIN data[Head(todo)]
          THEN data[Head(todo)]["1.2.3.4"] = EmptyMap => S2Outcome
          ELSE NoEffect /\ data' = data]_vars

\* the entry of the peer was withdrawn and S2's announcement installed it anew
C12_Witness ==
    /\ rec = Line("update", TsStart, "A", 15, "1.2.3.4", 100, "10.0.0.0/24",
                   <<"100", "200", "300">>)
    /\ notes # <<>>
    /\ notes[1].ev.old_path = NoPath
    /\ n_lines = 3
    /\ Cardinality(StoredIn(data)) = 1
    /\ as_graph_observer.graph_ipv4.edges = EdgesOf300
    /\ path_observer.paths_count = Put(EmptyMap, <<100, 200, 300>>, 1)
    /\ update_count_observer.n_withdrawals_ipv4 # EmptyMap

\* C13: an announcement from a tracked peer whose path is malformed or
\* invalid installs nothing; an entry held for the key is withdrawn, every
\* observer receiving one update_withdrawal with the old path, and deleted;
\* without such an entry nothing changes and nobody is notified.
C13_RejectedAnnouncement ==
    [][(ReadsTrackedAnnouncement /\ ~Accepted(rec'.as_path, rec'.peer_asn)) =>
          LET k == <<Head(todo), rec'.peer_ip, rec'.pfx>>
          IN /\ k \notin StoredIn(data')
             /\ IF k \in StoredIn(data)
                THEN /\ notes' = WithdrawalNotes(k, PathIn(data, k))
                     /\ StoredIn(data') = StoredIn(data) \ {k}
                     /\ \A j \in StoredIn(data') : PathIn(data', j) = PathIn(data, j)
                ELSE NoEffect]_vars

\* an announcement whose first ASN is not the peer's purged the entry
C13_Witness ==
    /\ rec.kind = "update" /\ rec.type = "A"
    /\ rec.peer_asn = 200 /\ rec.as_path = <<"100", "200">>
    /\ notes # <<>>
    /\ notes[1].ev.method = "update_withdrawal"
    /\ notes[1].ev.path = <<100, 200>>
    /\ StoredIn(data) = {}

\* C14: an announcement or withdrawal from a peer that has no sub-mapping
\* in the RIB of the collector leaves the RIB as it was, creates no
\* sub-mapping and notifies nobody.
C14_UntrackedPeer ==
    [][(ReadsUpdateLine /\ rec'.type \in {"A", "W"}
            /\ rec'.peer_ip \notin DOMAIN data[Head(todo)]) =>
          /\ NoEffect
          /\ DOMAIN data'[Head(todo)] = DOMAIN data[Head(todo)]]_vars

\* a valid announcement stamped within the window, from a peer the filter
\* lets through, was ignored on a collector that tracks another peer
C14_Witness ==
    /\ mode = "update"
    /\ rec.kind = "update" /\ rec.type = "A"
    /\ WithinWindow(rec.ts)
    /\ Accepted(rec.as_path, rec.peer_asn)
    /\ peer_ip_filter = {}
    /\ rec.peer_ip \notin DOMAIN data[Head(todo)]
    /\ data[Head(todo)] # EmptyMap
    /\ notes = <<>>
    /\ update_count_observer = EmptyUpdateCount

\* the step read a line of a RIB dump or of an update file
ReadsLine == n_lines' = n_lines + 1

\* C18: with a non-empty allowlist no entry is stored under a peer_ip outside
\* it and no notification carries one, during build and every update; with
\* an empty allowlist no record is filtered: every valid RIB line is
\* installed and every valid announcement of a tracked peer is applied.
C18_Allowlist ==
    /\ [](peer_ip_filter # {} =>
            /\ \A rc \in DOMAIN data : DOMAIN data[rc] \subseteq peer_ip_filter
            /\ \A rc \in DOMAIN build_result : DOMAIN build_result[rc] \subseteq peer_ip_filter
            /\ \A i \in 1..Len(notes) : notes[i].ev.peer_ip \in peer_ip_filter)
    /\ [][ReadsLine =>
            /\ (peer_ip_filter # {} /\ rec'.peer_ip \notin peer_ip_filter) =>
                  (NoEffect /\ build_result' = build_result)
            /\ (peer_ip_filter = {} /\ rec'.kind = "rib"
                    /\ Accepted(rec'.as_path, rec'.peer_asn)) =>
                  /\ notes' # <<>>
                  /\ build_result'[Head(todo)][rec'.peer_ip][rec'.pfx]
                         = CanonicalOf(rec'.as_path)
            /\ (peer_ip_filter = {} /\ ReadsTrackedAnnouncement
                    /\ Accepted(rec'.as_path, rec'.peer_asn)) =>
                  notes' # <<>>]_vars

\* a valid RIB line of a peer outside the allowlist was skipped after a line
\* of the allowed peer had been installed
C18_Witness ==
    /\ mode = "build"
    /\ peer_ip_filter = {"1.2.3.4"}
    /\ rec.kind = "rib" /\ rec.peer_ip = "5.6.7.8"
    /\ Accepted(rec.as_path, rec.peer_asn)
    /\ notes = <<>>
    /\ DOMAIN build_result[Head(todo)] = {"1.2.3.4"}

\* C19: when peer_asns is non-empty, a line whose peer ASN is outside it
\* notifies no observer, and every entry, stored or being built, was
\* installed by a line whose peer ASN is in it.
C19_PeerAsnAllowlist ==
    peer_asns # {} =>
        /\ (rec.kind # "none" /\ rec.peer_asn \notin peer_asns) => notes = <<>>
        /\ \A k \in StoredIn(data) \cup StoredIn(build_result) : hist[k].asn \in peer_asns

\* the step is the call rib_table.compare(end_rib_table)
Compares == mode = "end_built" /\ mode' = "compared"

\* the two tables hold the same map (rc, peer_ip, prefix) -> path
SameRib(d, e) ==
    /\ StoredIn(d) = StoredIn(e)
    /\ \A k \in StoredIn(d) : PathIn(d, k) = PathIn(e, k)

\* C15: whenever the reconstructed and the ground-truth RIB hold the same
\* map, the compare of the graph observers reports no added or removed node,
\* no added or removed edge and no modified edge.
C15_ComparePrecision ==
    (mode = "compared" /\ SameRib(data, end_data)) =>
        /\ \A e \in logs : e.level # "debug"
        /\ LogEvent("info", "No reconstruction errors", "", "", 0) \in logs

\* C16: RIBTable.compare leaves the data of both tables, their sets of
\* peer_ip keys included, and every observer of both tables, the node sets
\* of the graphs included, as they were.
C16_CompareFrame ==
    [][Compares =>
          /\ data' = data
          /\ end_data' = end_data
          /\ observers' = observers
          /\ end_as_graph_observer' = end_as_graph_observer]_vars

\* C17: for every peer of the reconstructed RIB that is missing from the
\* ground truth of its collector, compare logs an event of error severity.
C17_MissingPeerLogged ==
    [][Compares =>
          \A rc \in DOMAIN data : \A peer_ip \in DOMAIN data[rc] :
              peer_ip \notin DOMAIN end_data[rc] =>
                  \E e \in logs' : e.level = "error" /\ e.rc = rc /\ e.peer_ip = peer_ip]_vars

\* the cadence that governs, in minutes
Cadence(projs) ==
    (IF "RIS" \in projs THEN RisRibHours ELSE RvRibHours) * MinutesPerHour

\* the instants of the cadence around the requested starts
GridInstants(projs) ==
    { k * Cadence(projs) : k \in (-HoursPerDay)..(4 * HoursPerDay) }

\* C20: the ts_start that set_urls assigns lies on the grid of the governing
\* cadence (8 h with RIS, 2 h with RV alone), is not later than the
\* requested start, and no instant of the grid is nearer to the requested
\* start.
C20_SnapBackward ==
    mode = "urls" =>
        /\ closest_rib[1] \in GridInstants(projects)
        /\ closest_rib[1] <= date_range
        /\ \A g \in GridInstants(projects) :
              Abs(closest_rib[1] - date_range) <= Abs(g - date_range)

\* set_urls has run, to its end or to an exception
SetUrlsActed == mode \in {"urls", "raised"} /\ closest_rib # <<>>

\* every collector is one set_urls has a branch for
Standard(rcs) ==
    \A i \in 1..Len(rcs) : StartsWithRrc(rcs[i]) \/ StartsWithRouteViews(rcs[i])

\* C21: for RIS collectors, RouteViews collectors and both together,
\* set_urls completes, the compare flag is set exactly when the snapped
\* ts_end lies on a RIB instant of the governing cadence (8 h with RIS, 2 h
\* with RouteViews alone), and when it is set every collector has a
\* ground-truth RIB url at ts_end in the registry.
C21_CompareFlag ==
    (SetUrlsActed /\ Standard(collectors)) =>
        /\ raised = ""
        /\ compare <=> (ts_end % Cadence(projects) = 0)
        /\ compare =>
              \A i \in 1..Len(collectors) : <<ts_end, collectors[i], "rib">> \in DOMAIN files

\* C22: once set_urls has returned, the registry holds a start RIB url at
\* ts_start for every collector the constructor accepted, so that the
\* lookup files.loc[(ts_start, rc, "rib")] of the driver finds it.
C22_StartRibPerCollector ==
    mode = "urls" =>
        \A i \in 1..Len(collectors) :
            <<closest_rib[1], collectors[i], "rib">> \in DOMAIN files

\* __init__ has raised: no driver was constructed
ConstructionFailed == mode = "raised" /\ closest_rib = <<>>

\* C27: when the constructor raises on a configuration error (a date_range
\* that does not parse, a collector name it does not know), no I/O has been
\* done: no directory made, no url fetched, no file written.
C27_NoIOBeforeConfigError ==
    ConstructionFailed => effects = {}

\* the replay loop of the run is over
LoopOver == mode \in {"replayed", "returned", "checking"}

\* the timestamps of the calls of one kind that the driver made, in order
TimesOf(op) ==
    LET cs == SelectSeq(calls, LAMBDA c : c.op = op)
    IN [i \in 1..Len(cs) |-> cs[i].ts]

\* ts_start + k * interval for k = 1 .. floor((ts_end - ts_start) / interval)
SnapshotInstants ==
    [k \in 1..((ts_end - closest_rib[1]) \div interval) |-> closest_rib[1] + k * interval]

\* the timestamps that have an update file in the registry
UpdateInstants == { k[1] : k \in { f \in DOMAIN files : f[3] = "update" } }

\* the first two calls are build and the dump at ts_start, and every later
\* dump comes right after the update of its own timestamp
DumpsInPlace ==
    /\ Len(calls) >= 2
    /\ calls[1] = Call("build", closest_rib[1])
    /\ calls[2] = Call("dump", closest_rib[1])
    /\ \A i \in 3..Len(calls) :
          calls[i].op = "dump" => calls[i - 1] = Call("update", calls[i].ts)

Increasing(ts) == \A i \in 1..Len(ts), j \in 1..Len(ts) : i < j => ts[i] < ts[j]

\* C23 as stated: the observers are dumped at ts_start after build and
\* before any update, then at every snapshot instant
\* ts_start + k * interval, k = 1 .. floor((ts_end - ts_start) / interval),
\* right after the update of that timestamp, in increasing order and at no
\* other instant.
C23_DumpSchedule_Original ==
    LoopOver =>
        /\ DumpsInPlace
        /\ Increasing(TimesOf("dump"))
        /\ TimesOf("dump") = <<closest_rib[1]>> \o SnapshotInstants

\* the update resolution of the run divides the interval
Aligned ==
    interval % (IF "RIS" \in projects THEN RIS_UPDATE_RES ELSE RV_UPDATE_RES) = 0

\* C23, amended: the observers are dumped at ts_start after build and
\* before any update, then at those snapshot instants that are the
\* timestamp of an update file, right after the update of that timestamp,
\* in increasing order and at no other instant; these are all the snapshot
\* instants when the interval is a multiple of the update resolution.
C23_DumpSchedule ==
    LoopOver =>
        /\ DumpsInPlace
        /\ Increasing(TimesOf("dump"))
        /\ TimesOf("dump") =
              <<closest_rib[1]>> \o SelectSeq(SnapshotInstants, LAMBDA t : t \in UpdateInstants)
        /\ Aligned => TimesOf("dump") = <<closest_rib[1]>> \o SnapshotInstants

\* a run that ended after a dump at a snapshot instant
C23_Witness ==
    /\ LoopOver
    /\ Aligned
    /\ Len(TimesOf("dump")) >= 2

\* the update timestamps of the registry, in increasing order
UpdateTimestamps == SortedList(UpdateInstants)

\* the run has ended, by a return or by an exception
RunOver == mode \in {"raised", "returned", "checking"}

\* every collector of the table has its stop_updating flag set
EveryCollectorStopped == \A rc \in DOMAIN stop_updating : stop_updating[rc]

\* C24: the update buckets are processed in increasing timestamp order;
\* once every collector has its stop_updating flag set after a bucket, no
\* update() call is made for a later timestamp; otherwise the loop ends
\* after the last update timestamp of the registry; and the run always
\* comes to its end.
C24_EarlyTermination ==
    /\ [](/\ Increasing(TimesOf("update"))
          /\ \A i \in 1..Len(TimesOf("update")) : TimesOf("update")[i] = UpdateTimestamps[i]
          /\ (mode = "replay" /\ calls # <<>>) => ~EveryCollectorStopped
          /\ (LoopOver /\ ~EveryCollectorStopped) =>
                 TimesOf("update") = UpdateTimestamps)
    /\ [][/\ TimesOf("update")' # TimesOf("update") =>
                /\ mode = "replay"
                /\ ~EveryCollectorStopped
                /\ Len(TimesOf("update")') = Len(TimesOf("update")) + 1
          /\ mode = "replay" => Len(timestamps') < Len(timestamps)]_vars
    /\ <>RunOver

\* the loop was left with every collector stopped and update timestamps
\* still to take
C24_Witness ==
    /\ LoopOver
    /\ EveryCollectorStopped
    /\ timestamps # <<>>
    /\ Len(TimesOf("update")) < Len(UpdateTimestamps)

\* no build() and no update() call of the table is in progress
CallsReturned == mode \in {"built", "replay", "replayed", "returned", "checking"}

\* C25: every temporary file created to hand a RIB or update file to the
\* decoder has been deleted when the build() or update() call that created
\* it has returned, the update stream cut short by the stop_updating latch
\* included.
C25_TempFilesDeleted ==
    CallsReturned =>
        \A e \in effects :
            e.op = "tempfile" => Effect("remove", e.target) \in effects

\* the temporary files of the start RIBs are deleted when build() returns
C25_BuildDeletes ==
    CallsReturned =>
        \A e \in effects :
            (e.op = "tempfile" /\ \E k \in DOMAIN files : k[3] = "rib" /\ files[k] = e.target)
                => Effect("remove", e.target) \in effects

\* the rows the claim describes for a graph
RawRowsOf(as_graph) == { RawRow(e, as_graph.edges[e]) : e \in DOMAIN as_graph.edges }

PeersRowsOf(as_graph, multigraph) ==
    { PeersRow(e, as_graph.edges[e], peers_count_of(multigraph, e)) :
        e \in DOMAIN as_graph.edges }

\* with a collaborator every row carries paths_count / peers_count and
\* peers_count, one row per edge of the family's graph
DumpWithCollaborator ==
    (mode = "dumped" /\ multigraph_observer = "multigraph") =>
        /\ raised = ""
        /\ written[1] = EdgeList("#origin,destination,paths_count,peers_count",
                                 PeersRowsOf(as_graph_observer.graph_ipv4,
                                             as_multigraph_observer.graph_ipv4))
        /\ written[2] = EdgeList("#origin,destination,paths_count,peers_count",
                                 PeersRowsOf(as_graph_observer.graph_ipv6,
                                             as_multigraph_observer.graph_ipv6))
        /\ \A i \in 1..2 : \A row \in written[i].rows : row.peers_count > 0

\* C26: a graph observer constructed without a multigraph collaborator
\* dumps successfully, each family's file holding the header
\* #origin,destination,paths_count and one row per edge of that family's
\* graph with the raw paths_count; with a collaborator each row carries
\* paths_count / peers_count and peers_count.
C26_GraphDump ==
    /\ (mode = "dumped" /\ multigraph_observer # "multigraph") =>
          /\ raised = ""
          /\ written[1] = EdgeList("#origin,destination,paths_count",
                                   RawRowsOf(as_graph_observer.graph_ipv4))
          /\ written[2] = EdgeList("#origin,destination,paths_count",
                                   RawRowsOf(as_graph_observer.graph_ipv6))
    /\ DumpWithCollaborator

\* a dump with a collaborator that wrote a row in each family
DumpWithCollaboratorSeen ==
    /\ mode = "dumped" /\ multigraph_observer = "multigraph"
    /\ written[1].rows # {} /\ written[2].rows # {}

\* C28: the sanitizer accepts a token sequence iff every token parses as
\* a non-negative integer and the sequence, runs of consecutive equal ASNs
\* collapsed, has length >= 2 and starts with the peer ASN; the accepted
\* result is exactly the collapsed sequence.
C28_Sanitizer ==
    mode = "sanitized" =>
        /\ result.accepted <=> Accepted(arg[1], arg[2])
        /\ result.accepted => result.path = CanonicalOf(arg[1])

\* the tokens a decoder prints: decimal ASNs without sign or leading zero,
\* and AS sets
DecoderTokens == {"100", "200", "{200,201}"}

\* on the as_path fields of a decoder the sanitizer is as C28 says
SanitizerOnDecoderTokens ==
    (mode = "sanitized" /\ SeqRange(arg[1]) \subseteq DecoderTokens) =>
        /\ result.accepted <=> Accepted(arg[1], arg[2])
        /\ result.accepted => result.path = CanonicalOf(arg[1])

\* the undirected edges a set of reported pairs stands for
Undirected(es) == { Edge(e[1], e[2]) : e \in es }

\* added_edges and removed_edges are exactly the undirected edges of one
\* graph alone, each reported once
AddedRemovedExact ==
    mode = "graphs_compared" =>
        /\ Undirected(result.added_edges) = DOMAIN arg[2].edges \ DOMAIN arg[1].edges
        /\ Undirected(result.removed_edges) = DOMAIN arg[1].edges \ DOMAIN arg[2].edges
        /\ Cardinality(result.added_edges) = Cardinality(Undirected(result.added_edges))
        /\ Cardinality(result.removed_edges) = Cardinality(Undirected(result.removed_edges))

\* C29: every edge {u, v} present in both graphs whose paths_count differs
\* appears in modified_edges, whatever endpoint order each graph stores
\* it in; added_edges and removed_edges are exactly the undirected edges
\* present in one graph only.
C29_GraphCompare ==
    /\ mode = "graphs_compared" =>
          \A e \in DOMAIN arg[1].edges \cap DOMAIN arg[2].edges :
              arg[1].edges[e] # arg[2].edges[e] =>
                  e \in Undirected(DOMAIN result.modified_edges)
    /\ AddedRemovedExact

\* C30: dict_diff(reconstruction, ground_truth) returns three maps whose
\* key sets are pairwise disjoint: added holds the keys of the ground
\* truth alone, removed the keys of the reconstruction alone, modified the
\* keys of both whose paths differ; the three are empty iff the two maps
\* are equal.
C30_DictDiff ==
    mode = "diffed" =>
        LET reconstruction == arg[1]
            ground_truth == arg[2]
        IN /\ DOMAIN result.added \cap DOMAIN result.removed = {}
           /\ DOMAIN result.added \cap DOMAIN result.modified = {}
           /\ DOMAIN result.removed \cap DOMAIN result.modified = {}
           /\ result.added =
                 Restrict(ground_truth, DOMAIN ground_truth \ DOMAIN reconstruction)
           /\ result.removed =
                 Restrict(reconstruction, DOMAIN reconstruction \ DOMAIN ground_truth)
           /\ DOMAIN result.modified =
                 { pfx \in DOMAIN reconstruction \cap DOMAIN ground_truth :
                     reconstruction[pfx] # ground_truth[pfx] }
           /\ \A pfx \in DOMAIN result.modified :
                 result.modified[pfx] = <<reconstruction[pfx], ground_truth[pfx]>>
           /\ (/\ DOMAIN result.added = {}
               /\ DOMAIN result.removed = {}
               /\ DOMAIN result.modified = {}) <=> reconstruction = ground_truth

\* a diff with a key of each kind
C30_Witness ==
    /\ mode = "diffed"
    /\ DOMAIN result.added # {}
    /\ DOMAIN result.removed # {}
    /\ DOMAIN result.modified # {}

\* a diff of two equal, non-empty maps
C30_EqualSeen ==
    /\ mode = "diffed"
    /\ arg[1] = arg[2] /\ DOMAIN arg[1] # {}
    /\ DOMAIN result.modified = {}

\* the four observers by name
ObserverStates ==
    ObserversOf(as_graph_observer, as_multigraph_observer, update_count_observer,
                path_observer)

\* how many times a name stands in a list of observers
Occurrences(names, name) == Cardinality({ i \in 1..Len(names) : names[i] = name })

\* a step that processed a record
RecordStep == n_calls' = n_calls + 1

\* a detach_observer(name) call that returned
DetachStep(name) ==
    /\ Len(attached') = Len(attached) - 1
    /\ Occurrences(attached', name) = Occurrences(attached, name) - 1

\* the event of a record is delivered to the attached observers, once per
\* attachment and in attachment order, within the step of the record; the
\* observers that are not attached keep their state
DeliveryInOrder ==
    /\ RecordStep =>
          /\ Len(notes') = Len(attached)
          /\ \A i \in 1..Len(attached) :
                /\ notes'[i].observer = attached[i]
                /\ notes'[i].ev = notes'[1].ev
                /\ Occurrences(attached, attached[i]) = 1 =>
                      ObserverStates'[attached[i]] =
                          notify_one(ObserverStates, attached[i], notes'[1].ev)[attached[i]]
          /\ \A name \in SeqRange(ObserverNames) \ SeqRange(attached) :
                ObserverStates'[name] = ObserverStates[name]
    /\ ~RecordStep => ObserverStates' = ObserverStates

\* C31: every RIB mutation event is delivered to all currently attached
\* observers, in attachment order, before the next record is processed;
\* an observer that was detached is no longer in the list of the table,
\* so it receives no later notification and its state stays frozen.
C31_Delivery ==
    [][/\ DeliveryInOrder
       /\ \A name \in SeqRange(ObserverNames) :
             DetachStep(name) => name \notin SeqRange(attached')]_vars

\* delivery is as C31 says on every step
C31_DeliveryInOrder == [][DeliveryInOrder]_vars

\* the detach of an observer that was attached once takes it off the list
C31_DetachOfOneAttachment ==
    [][\A name \in SeqRange(ObserverNames) :
          (DetachStep(name) /\ Occurrences(attached, name) = 1) =>
              name \notin SeqRange(attached')]_vars

\* d[k] of a defaultdict(int) that is only read
CountOf(f, k) == IF k \in DOMAIN f THEN f[k] ELSE 0

RECURSIVE SumOver(_, _)
\* the sum of f over the keys of S
SumOver(f, S) ==
    IF S = {} THEN 0
    ELSE LET k == CHOOSE x \in S : TRUE IN f[k] + SumOver(f, S \ {k})

\* the sum over peers of n_updates_per_peer[rc]
PerPeerTotal(o, rc) ==
    IF rc \in DOMAIN o.n_updates_per_peer
    THEN SumOver(o.n_updates_per_peer[rc], DOMAIN o.n_updates_per_peer[rc])
    ELSE 0

FamilyTotal(o, rc) ==
    CountOf(o.n_withdrawals_ipv4, rc) + CountOf(o.n_withdrawals_ipv6, rc)
        + CountOf(o.n_announcements_ipv4, rc) + CountOf(o.n_announcements_ipv6, rc)

\* the withdrawal and announcement notifications the line just read made
\* the update counter receive for rc (none or one)
UpdateNotes(ns, rc) ==
    Cardinality({ i \in 1..Len(ns) :
                    /\ ns[i].observer = "update_count"
                    /\ ns[i].ev.rc = rc
                    /\ ns[i].ev.method \in {"update_withdrawal", "update_announcement"} })

\* a line was read by the step
LineStep == n_lines' = n_lines + 1

\* the line read by the step is an announcement the sanitizer rejects and
\* the step took the entry of its key out of the RIB
PurgeStep(rc) ==
    /\ LineStep /\ mode = "update" /\ Head(todo) = rc
    /\ rec'.type = "A" /\ ~Accepted(rec'.as_path, rec'.peer_asn)
    /\ rec'.peer_ip \in DOMAIN data[rc]
    /\ rec'.pfx \in DOMAIN data[rc][rec'.peer_ip]
    /\ rec'.pfx \notin DOMAIN data'[rc][rec'.peer_ip]

\* C32: build leaves every counter of the update counter at zero;
\* afterwards, for each collector, n_updates[rc] grows by one with each
\* withdrawal or announcement notification emitted for rc and by nothing
\* else, equals the sum of the four per-family counters of rc and the sum
\* over peers of n_updates_per_peer[rc]; a rejected announcement that
\* purges an entry is counted as a withdrawal, not as an announcement.
C32_UpdateCounter ==
    /\ []((mode \in {"new", "build"} \/ n_calls = 0) =>
              update_count_observer = EmptyUpdateCount)
    /\ [](\A rc \in SeqRange(Collectors) :
              /\ CountOf(update_count_observer.n_updates, rc)
                    = FamilyTotal(update_count_observer, rc)
              /\ CountOf(update_count_observer.n_updates, rc)
                    = PerPeerTotal(update_count_observer, rc))
    /\ [][\A rc \in SeqRange(Collectors) :
             /\ CountOf(update_count_observer.n_updates, rc)'
                   = CountOf(update_count_observer.n_updates, rc)
                       + (IF LineStep THEN UpdateNotes(notes', rc) ELSE 0)
             /\ PurgeStep(rc) =>
                   /\ FamilyTotal(update_count_observer, rc)'
                         = FamilyTotal(update_count_observer, rc) + 1
                   /\ CountOf(update_count_observer.n_withdrawals_ipv4, rc)'
                         + CountOf(update_count_observer.n_withdrawals_ipv6, rc)'
                       = CountOf(update_count_observer.n_withdrawals_ipv4, rc)
                           + CountOf(update_count_observer.n_withdrawals_ipv6, rc) + 1]_vars

\* a rejected announcement has just purged an entry and was counted as a
\* withdrawal, after an update of the same collector was counted before
C32_Witness ==
    /\ mode \in {"update", "idle", "done"}
    /\ rec.type = "A" /\ ~Accepted(rec.as_path, rec.peer_asn)
    /\ notes # <<>>
    /\ notes[1].ev.method = "update_withdrawal"
    /\ CountOf(update_count_observer.n_updates, notes[1].ev.rc) >= 2
    /\ CountOf(update_count_observer.n_announcements_ipv4, notes[1].ev.rc) >= 1

\* the last call made on the table
LastCall == arg[Len(arg)]

\* the entries a dump asks for: per (peer_ip, pfx) the path of the last
\* line of the dump that the sanitizer accepts
EntriesOf(lines) ==
    { <<lines[i].peer_ip, lines[i].pfx, CanonicalOf(lines[i].as_path)>> :
        i \in { j \in 1..Len(lines) :
                  /\ Accepted(lines[j].as_path, lines[j].peer_asn)
                  /\ \A k \in (j + 1)..Len(lines) :
                        ~(/\ lines[k].peer_ip = lines[j].peer_ip
                          /\ lines[k].pfx = lines[j].pfx
                          /\ Accepted(lines[k].as_path, lines[k].peer_asn)) } }

\* the entries a collector's RIB holds
EntriesIn(rib) ==
    UNION { { <<peer_ip, pfx, rib[peer_ip][pfx]>> : pfx \in DOMAIN rib[peer_ip] } :
              peer_ip \in DOMAIN rib }

\* C33: build(m) replaces the state of the store: once it has returned
\* the RIB holds exactly the collectors of m, each with only the entries
\* of its newly read dump, and stop_updating is exactly {rc: false} for the
\* collectors of m, whatever the RIB and the flags were before.
C33_BuildReplaces ==
    (arg # <<>> /\ LastCall.op = "build") =>
        /\ DOMAIN data = SeqRange(LastCall.rcs)
        /\ \A rc \in SeqRange(LastCall.rcs) :
              EntriesIn(data[rc]) = EntriesOf(LastCall.contents[rc])
        /\ stop_updating = [rc \in SeqRange(LastCall.rcs) |-> FALSE]

\* a build on one collector, after an update latched the flag of that
\* collector in a table built on two collectors that both held entries
C33_Witness ==
    /\ Len(arg) = 3
    /\ arg[1].op = "build" /\ arg[1].rcs = <<"rrc00", "rrc01">>
    /\ \A rc \in {"rrc00", "rrc01"} : Len(arg[1].contents[rc]) = 2
    /\ arg[2].op = "update"
    /\ TooLate(arg[2].contents["rrc00"][1].ts)
    /\ arg[3].op = "build" /\ arg[3].rcs = <<"rrc00">>
    /\ arg[3].contents["rrc00"] = <<>>
    /\ data = [rc \in {"rrc00"} |-> EmptyMap]
    /\ stop_updating = [rc \in {"rrc00"} |-> FALSE]

\* the line read by a step touches, in the table t of the collectors, at
\* most the RIB of peer_ip under collector rc
OnlyPeerTouched(t_before, t_after, rc, peer_ip) ==
    /\ DOMAIN t_after = DOMAIN t_before
    /\ \A other \in DOMAIN t_before \ {rc} : t_after[other] = t_before[other]
    /\ \A ip \in (DOMAIN t_before[rc] \cup DOMAIN t_after[rc]) \ {peer_ip} :
          /\ ip \in DOMAIN t_before[rc] /\ ip \in DOMAIN t_after[rc]
          /\ t_after[rc][ip] = t_before[rc][ip]

\* C34: processing a record of collector A for peer P changes no RIB
\* entry under another collector or another peer; the stop_updating latch
\* of A does not set the flag of another collector B, and B's file is
\* still processed in the same update() call.
C34_Isolation ==
    [][(LineStep /\ mode \in {"build", "update"}) =>
          /\ mode = "build" =>
                /\ OnlyPeerTouched(build_result, build_result', Head(todo), rec'.peer_ip)
                /\ data' = data
          /\ mode = "update" =>
                OnlyPeerTouched(data, data', Head(todo), rec'.peer_ip)
          /\ DOMAIN stop_updating' = DOMAIN stop_updating
          /\ \A other \in DOMAIN stop_updating \ {Head(todo)} :
                stop_updating'[other] = stop_updating[other]
          /\ (mode = "update" /\ Tail(todo) # <<>>) =>
                /\ mode' = "update"
                /\ todo' \in {todo, Tail(todo)}]_vars

\* in one update() call the flag of rrc00 was latched, and a record of
\* the file of rrc01 then changed the RIB of rrc01
C34_Witness ==
    /\ mode = "update" /\ n_calls = 1
    /\ Head(todo) = "rrc01"
    /\ stop_updating["rrc00"] /\ ~stop_updating["rrc01"]
    /\ rec.kind = "update" /\ notes # <<>>

\* the parallel edges of the multigraph that join the ends of e
ParallelEdges(multigraph, e) == { k \in DOMAIN multigraph.edges : k[1] = e }

\* the graph and the multigraph of one family tell the same edges, and the
\* paths_count of each edge of the graph is the sum over its parallel edges
GraphsConsistent(as_graph, multigraph) ==
    /\ DOMAIN as_graph.edges = { k[1] : k \in DOMAIN multigraph.edges }
    /\ \A e \in DOMAIN as_graph.edges :
          /\ as_graph.edges[e] = SumOver(multigraph.edges, ParallelEdges(multigraph, e))
          /\ Cardinality(ParallelEdges(multigraph, e)) >= 1

\* C35: the graph and the multigraph observer of one table stay consistent:
\* in each family, during and after build and after any update, an edge is
\* in the graph iff the multigraph has at least one parallel edge for it,
\* and its paths_count is the sum of the paths_count of these parallel
\* edges; so dump finds a peers_count of at least 1 for every edge of the
\* graph and writes a row for each.
C35_GraphMultigraphConsistent ==
    /\ GraphsConsistent(as_graph_observer.graph_ipv4, as_multigraph_observer.graph_ipv4)
    /\ GraphsConsistent(as_graph_observer.graph_ipv6, as_multigraph_observer.graph_ipv6)
    /\ Cardinality(PeersRows(as_graph_observer.graph_ipv4,
                             as_multigraph_observer.graph_ipv4))
          = Cardinality(DOMAIN as_graph_observer.graph_ipv4.edges)
    /\ Cardinality(PeersRows(as_graph_observer.graph_ipv6,
                             as_multigraph_observer.graph_ipv6))
          = Cardinality(DOMAIN as_graph_observer.graph_ipv6.edges)

\* after a withdrawal took the path of one peer out, its edges are still in
\* the ipv4 graph, each counted for the parallel edge of another peer
C35_Witness ==
    /\ mode \in {"update", "idle", "done"}
    /\ notes # <<>>
    /\ notes[1].ev.method = "update_withdrawal"
    /\ notes[1].ev.fam = "ipv4"
    /\ \E e \in DOMAIN as_graph_observer.graph_ipv4.edges :
          /\ \E i \in 1..(Len(notes[1].ev.path) - 1) :
                e = Edge(notes[1].ev.path[i], notes[1].ev.path[i + 1])
          /\ as_graph_observer.graph_ipv4.edges[e] = 1
          /\ ParallelEdges(as_multigraph_observer.graph_ipv4, e) # {}
          /\ \A k \in ParallelEdges(as_multigraph_observer.graph_ipv4, e) :
                k[2] # MultiKey(notes[1].ev.rc, notes[1].ev.peer_ip)

\* the number of times a path walks over the edge e
EdgeUses(path, e) ==
    Cardinality({ i \in 1..(Len(path) - 1) : Edge(path[i], path[i + 1]) = e })

\* the path a notification hands over for removal: the path of a withdrawal,
\* the old_path of an announcement
RemovedBy(ev) ==
    CASE ev.method = "update_withdrawal" -> ev.path
      [] ev.method = "update_announcement" -> ev.old_path
      [] OTHER -> NoPath

\* the observers hold what a removal of path for (rc, peer_ip) in family fam
\* decrements: every edge in the graph and in the multigraph under the key
\* of the peer, as often as the path walks over it, and the path itself
FoundByRemove(fam, rc, peer_ip, path) ==
    /\ CountOf(path_observer.paths_count, path) >= 1
    /\ \A i \in 1..(Len(path) - 1) :
          LET e == Edge(path[i], path[i + 1])
          IN /\ CountOf(GraphOf(as_graph_observer, fam).edges, e) >= EdgeUses(path, e)
             /\ CountOf(GraphOf(as_multigraph_observer, fam).edges,
                        <<e, MultiKey(rc, peer_ip)>>) >= EdgeUses(path, e)

\* C36: with the four observers attached before build and notified by the
\* table only, no removal misses: the path handed to a withdrawal or as
\* old_path of an announcement is the path stored for (rc, peer_ip, prefix),
\* which the last record applied to that key added, and the graph, the
\* multigraph and the path counter hold it when the removal is made.
C36_NoRemoveMisses ==
    [][(LineStep /\ notes' # <<>> /\ RemovedBy(notes'[1].ev) # NoPath) =>
          LET ev == notes'[1].ev
              k == <<ev.rc, ev.peer_ip, ev.pfx>>
          IN /\ k \in StoredIn(data)
             /\ PathIn(data, k) = RemovedBy(ev)
             /\ hist[k].valid
             /\ hist[k].path = RemovedBy(ev)
             /\ FoundByRemove(ev.fam, ev.rc, ev.peer_ip, RemovedBy(ev))]_vars

\* an announcement has just replaced the path of an entry by another path,
\* which it handed over as old_path
C36_Witness ==
    /\ mode \in {"update", "idle", "done"}
    /\ notes # <<>>
    /\ notes[1].ev.method = "update_announcement"
    /\ notes[1].ev.old_path # NoPath
    /\ notes[1].ev.old_path # notes[1].ev.path
    /\ CountOf(path_observer.paths_count, notes[1].ev.old_path) = 0

\* the peers each collector tracks
TrackedPeers(d) == [rc \in DOMAIN d |-> DOMAIN d[rc]]

\* the step reads, in the update file of rc, an announcement inside the
\* window that the filter lets through and the sanitizer accepts, for a
\* tracked peer whose map is empty
AnnounceToEmptyPeer(rc) ==
    /\ LineStep /\ mode = "update" /\ Head(todo) = rc
    /\ rec'.type = "A" /\ rec'.nfields = 15
    /\ WithinWindow(rec'.ts)
    /\ Allowed(rec'.peer_ip)
    /\ Accepted(rec'.as_path, rec'.peer_asn)
    /\ rec'.peer_ip \in DOMAIN data[rc]
    /\ data[rc][rec'.peer_ip] = EmptyMap

\* C37: the set of tracked peers is fixed by build: once build has returned
\* no step adds a peer_ip key to or removes one from the RIB of a collector;
\* a peer whose prefixes were all withdrawn stays tracked with an empty map,
\* and a later valid announcement of that peer is installed.
C37_TrackedPeersFixed ==
    [][/\ Built => TrackedPeers(data') = TrackedPeers(data)
       /\ \A rc \in SeqRange(Collectors) :
             AnnounceToEmptyPeer(rc) =>
                 /\ rec'.pfx \in DOMAIN data'[rc][rec'.peer_ip]
                 /\ data'[rc][rec'.peer_ip][rec'.pfx] = CanonicalOf(rec'.as_path)]_vars

\* the only entry of a peer was withdrawn and an announcement of that peer
\* was installed afterwards as a new entry
C37_Witness ==
    /\ mode \in {"update", "idle", "done"}
    /\ n_lines = 3
    /\ notes # <<>>
    /\ notes[1].ev.method = "update_announcement"
    /\ notes[1].ev.old_path = NoPath
    /\ notes[1].ev.fam = "ipv4"
    /\ CountOf(update_count_observer.n_withdrawals_ipv4, notes[1].ev.rc) = 1
    /\ update_count_observer.n_updates_per_peer[notes[1].ev.rc]
          = [ip \in {notes[1].ev.peer_ip} |-> 2]
    /\ data[notes[1].ev.rc][notes[1].ev.peer_ip]
          = [pfx \in {notes[1].ev.pfx} |-> notes[1].ev.path]

(***************************************************************************)
(* The table fed with RIB dumps in which no line is accepted for a         *)
(* (peer_ip, prefix) that already holds an entry of the dump; every prefix *)
(* of Prefixes is an IPv4 or an IPv6 prefix.  The other steps are those of *)
(* Spec.                                                                   *)
(***************************************************************************)
BuildRecordUnique(line) ==
    /\ mode = "build"
    /\ ~(/\ Accepted(line.as_path, line.peer_asn)
         /\ <<Head(todo), line.peer_ip, line.pfx>> \in StoredIn(build_result))
    /\ BuildRecord(line)

NextUnique ==
    \/ BuildStart
    \/ \E line \in RibLines : BuildRecordUnique(line)
    \/ BuildEOF
    \/ UpdateStart
    \/ \E line \in UpdateLines : UpdateRecord(line)
    \/ UpdateEOF

SpecUnique == Init /\ [][NextUnique]_vars

\* the RIB as it stands: the dictionary build is filling, then self.data
RibNow == IF mode = "build" THEN build_result ELSE data

\* the entries of the RIB whose stored path is p
EntriesWithPath(p) == { k \in StoredIn(RibNow) : PathIn(RibNow, k) = p }

\* C38: when no RIB dump holds two records for one (peer_ip, prefix) and
\* every prefix is IPv4 or IPv6, during build and after any update the
\* multiplicity of each path in the path observer is the number of RIB
\* entries, over all collectors, peers and prefixes, whose stored path it
\* is, and the multiplicities add up to the number of RIB entries.
C38_PathCounter ==
    /\ \A p \in DOMAIN path_observer.paths_count \cup
                { PathIn(RibNow, k) : k \in StoredIn(RibNow) } :
          CountOf(path_observer.paths_count, p) = Cardinality(EntriesWithPath(p))
    /\ SumOver(path_observer.paths_count, DOMAIN path_observer.paths_count)
          = Cardinality(StoredIn(RibNow))

\* after an update replaced a path, two entries of different families share
\* one path and the path observer counts 2 for it
C38_Witness ==
    /\ mode \in {"update", "idle", "done"}
    /\ notes # <<>>
    /\ notes[1].ev.method = "update_announcement"
    /\ notes[1].ev.old_path # NoPath
    /\ \E p \in DOMAIN path_observer.paths_count :
          /\ path_observer.paths_count[p] = 2
          /\ \E k1 \in EntriesWithPath(p), k2 \in EntriesWithPath(p) :
                Family(k1[3]) = "ipv4" /\ Family(k2[3]) = "ipv6"

\* set_urls has just moved ts_start and ts_end of a date_range whose start
\* is not after its end
SnapStep == mode = "configured" /\ mode' # "configured" /\ date_range <= ts_end

\* C39: for every date_range with start <= end, set_urls leaves the moved
\* ts_start at or before the moved ts_end, so updates_number for the RIS and
\* for the RouteViews resolution and output_files_number for the interval,
\* computed from their difference, are not negative.
C39_SnappedOrder ==
    [][SnapStep =>
          /\ closest_rib'[1] <= ts_end'
          /\ ((ts_end' - closest_rib'[1]) \div RIS_UPDATE_RES) + 1 >= 0
          /\ ((ts_end' - closest_rib'[1]) \div RV_UPDATE_RES) + 1 >= 0
          /\ Trunc(ts_end' - closest_rib'[1], interval) >= 0]_vars

====
